---- MODULE Spec2Model ----
(***************************************************************************)
(* A model of the multi-mode card-combat server, src/server/index.js:      *)
(* the room registry, the session directory, the per-player deck / hand /  *)
(* discard pile, the hand evaluator and the socket handlers.               *)
(*                                                                         *)
(* JavaScript values are modelled as follows.                              *)
(*   - A Map is a function whose DOMAIN is the set of its keys.            *)
(*   - Player objects live in a heap (objs); rooms and the session         *)
(*     directory hold references (heap addresses), because the code shares *)
(*     one object between players.get(id) and room.players.               *)
(*   - A numeric field that is undefined or NaN holds Undefined or NaN.    *)
(*   - Math.random() is an arbitrary value: the start player is drawn      *)
(*     from {0, 1} and a shuffle draws its index stream from a small set   *)
(*     of random sources.                                                  *)
(*   - An uncaught TypeError in a handler ends the process: crashed.       *)
(***************************************************************************)
EXTENDS Integers, Sequences, FiniteSets, TLC

VARIABLES
    rooms,        \* Map roomId -> room                      (index.js:20)
    players,      \* Map socket.id -> reference to a player  (index.js:21)
    objs,         \* heap: reference -> player object
    timers,       \* pending setTimeout(startGame) calls, oldest first
    nextRoomId,   \* the next uuid
    disconnected, \* connections that have gone
    emitted,      \* the events the last handler emitted, in order
    crashed,      \* an uncaught exception ended the process
    candidate,    \* the array of cards handed to the hand evaluator
    validated,    \* what validateHand(candidate) returned
    evaluated,    \* what evaluateHand(candidate) returned
    previewed,    \* what the client's preview of candidate shows
    singleMode,   \* what the single-mode server's evaluator returned (part_000)
    ensureArgs,   \* the arguments of a call of ensureDeckHasCards on its own
    replenished   \* the deck and pile after that call, and what it returned

\* the hand evaluator called on its own: its argument and what came back
evaluator == <<candidate, validated, evaluated, previewed, singleMode>>

\* ensureDeckHasCards called on its own
replenisher == <<ensureArgs, replenished>>

vars == <<rooms, players, objs, timers, nextRoomId, disconnected, emitted, crashed,
          candidate, validated, evaluated, previewed, singleMode, ensureArgs, replenished>>

---------------------------------------------------------------------------
(* Program constants *)

MaxRank == 13
HandSize == 8
ClassicHealth == 200
TacticalHealth == 300
RecyclingHealth == 300
MaxDiscardsInit == 3
MaxCardsPerDiscardInit == 5
CooldownTurns == 5
MaxArmor == 50

CLASSIC == "classic"
TACTICAL == "tactical"
RECYCLING == "recycling"
GAME_MODES == {CLASSIC, TACTICAL, RECYCLING}

\* GAME_MODE_CONFIG[mode] || GAME_MODE_CONFIG[CLASSIC]
\* the single-mode server's health, whatever the mode
StartingHealthSingle(gameMode) == ClassicHealth
StartingHealth(gameMode) ==
    IF gameMode = TACTICAL THEN TacticalHealth
    ELSE IF gameMode = RECYCLING THEN RecyclingHealth
    ELSE ClassicHealth

\* JavaScript's undefined and NaN in a numeric field: two values no
\* arithmetic of a match produces (a health minus a damage is above -1000)
Undefined == -10000
NaN == -20000
IsNumber(x) == x # Undefined /\ x # NaN
\* a - b, a > 0, a <= 0 and Math.max(0, a) on a value that may be undefined or NaN
JsMinus(a, b) == IF IsNumber(a) /\ IsNumber(b) THEN a - b ELSE NaN
JsPlus(a, b) == IF IsNumber(a) /\ IsNumber(b) THEN a + b ELSE NaN
JsPositive(a) == IsNumber(a) /\ a > 0
\* a < 0 in place of a <= 0
JsNegative(a) == IsNumber(a) /\ a < 0
JsNotPositive(a) == IsNumber(a) /\ a <= 0
\* no floor at 0
JsUnfloored(a) == a
JsMax0(a) == IF IsNumber(a) THEN (IF a > 0 THEN a ELSE 0) ELSE NaN
JsMin(a, b) == IF IsNumber(a) /\ IsNumber(b) THEN (IF a < b THEN a ELSE b) ELSE NaN
\* a non-empty string is truthy
Truthy(str) == str # ""

---------------------------------------------------------------------------
(* Cards and decks *)

Suits == <<"hearts", "diamonds", "clubs", "spades">>

\* The k-th card pushed by createDeck (k from 1). The id stands for the string
\* `${suit}-${rank}-${Math.random()}`, unique within the deck.
NewCard(k) ==
    [id |-> k,
     suit |-> Suits[((k - 1) \div MaxRank) + 1],
     rank |-> ((k - 1) % MaxRank) + 1,
     selected |-> FALSE,
     markedForDiscard |-> FALSE]

UnshuffledDeck == [k \in 1..(Len(Suits) * MaxRank) |-> NewCard(k)]

\* The draws of a createDeck shuffle, step i = 1..51, that deal K-hearts,
\* K-diamonds, Q-hearts, Q-diamonds, K-clubs, 2-, 3-, 4-spades and then the
\* four aces, 9-, 7-, 6-, 5-spades.
PairsStream ==
    <<0, 2, 2, 2, 4, 5, 6, 0, 7, 8, 3, 1, 7,
      8, 7, 1, 2, 3, 4, 5, 6, 7, 8, 9, 10, 14,
      15, 16, 17, 18, 19, 20, 21, 22, 23, 27, 28, 29, 30,
      31, 32, 33, 34, 35, 36, 37, 46, 48, 49, 50, 51>>

\* The draws that deal 2-, 4-, 6-, 8-, 10-hearts, 2-, 3-, 4-spades and then
\* 5-clubs, 6-diamonds, 7-, 8-, 9-clubs, J-, Q-, K-spades.
RunsStream ==
    <<0, 0, 2, 4, 0, 2, 6, 8, 4, 0, 0, 0, 0,
      2, 6, 0, 2, 4, 6, 8, 10, 11, 12, 13, 14, 15,
      16, 17, 19, 20, 21, 22, 23, 24, 25, 26, 27, 28, 29,
      31, 35, 36, 37, 38, 39, 43, 44, 45, 46, 47, 48>>

\* The draws of a createDeck shuffle that deal the four aces, kings and queens
\* and three jacks first, and then the cards from the twos up to the tens.
DrainStream ==
    <<1, 2, 1, 1, 5, 4, 6, 5, 2, 1, 5, 10, 3,
      2, 1, 14, 4, 15, 2, 15, 17, 5, 3, 16, 8, 9,
      4, 17, 8, 8, 5, 18, 31, 21, 6, 19, 32, 34, 7,
      20, 33, 9, 8, 21, 34, 9, 9, 22, 35, 48, 49>>

\* Math.floor(Math.random() * (i + 1)) for the i-th step of a shuffle, under a
\* random source: "keep" draws i (no swap), "front" draws 0, "mirror" draws the
\* stream that deals each suit as A, K, Q, ..., 2, "pairs", "runs" and "drain"
\* draw the streams above.
RandomIndex(rnd, i) ==
    IF rnd = "front" THEN 0
    ELSE IF rnd = "mirror"
         THEN (IF i % 13 <= 6 THEN i ELSE i - 2 * (i % 13) + 13)
    ELSE IF rnd = "pairs" /\ i \in DOMAIN PairsStream THEN PairsStream[i]
    ELSE IF rnd = "runs" /\ i \in DOMAIN RunsStream THEN RunsStream[i]
    ELSE IF rnd = "drain" /\ i \in DOMAIN DrainStream THEN DrainStream[i]
    ELSE i

SwapAt(seq, a, b) == [seq EXCEPT ![a] = seq[b], ![b] = seq[a]]

\* for (let i = n - 1; i > 0; i--) { j = floor(random * (i + 1)); swap(i, j) }
\* (i and j are the code's 0-based indexes)
RECURSIVE FisherYates(_, _, _)
FisherYates(seq, i, rnd) ==
    IF i < 1 THEN seq
    ELSE FisherYates(SwapAt(seq, i + 1, RandomIndex(rnd, i) + 1), i - 1, rnd)

Shuffle(seq, rnd) == FisherYates(seq, Len(seq) - 1, rnd)

createDeck(rnd) == Shuffle(UnshuffledDeck, rnd)

\* { ...card, selected: false, markedForDiscard: false }
CleanCard(card) == [card EXCEPT !.selected = FALSE, !.markedForDiscard = FALSE]
CleanCards(cards) == [i \in DOMAIN cards |-> CleanCard(cards[i])]

\* the answer is always that the deck has enough cards
ensureDeckAlwaysEnough(deck, discardPile, cardsNeeded, rnd) ==
    IF Len(deck) >= cardsNeeded
    THEN [deck |-> deck, discardPile |-> discardPile, ok |-> TRUE]
    ELSE [deck |-> deck \o Shuffle(discardPile, rnd), discardPile |-> <<>>, ok |-> TRUE]

\* the pile is appended to the deck and not cleared
ensureDeckKeepsPile(deck, discardPile, cardsNeeded, rnd) ==
    IF Len(deck) >= cardsNeeded
    THEN [deck |-> deck, discardPile |-> discardPile, ok |-> TRUE]
    ELSE LET merged == deck \o Shuffle(discardPile, rnd)
         IN [deck |-> merged, discardPile |-> discardPile,
             ok |-> Len(merged) >= cardsNeeded]

\* ensureDeckHasCards mutates deck and discardPile in place and returns a boolean.
ensureDeckHasCards(deck, discardPile, cardsNeeded, rnd) ==
    IF Len(deck) >= cardsNeeded
    THEN [deck |-> deck, discardPile |-> discardPile, ok |-> TRUE]
    ELSE IF Len(discardPile) > 0
         THEN LET merged == deck \o Shuffle(discardPile, rnd)
              IN [deck |-> merged, discardPile |-> <<>>,
                  ok |-> Len(merged) >= cardsNeeded]
         ELSE [deck |-> deck, discardPile |-> discardPile,
               ok |-> Len(deck) >= cardsNeeded]

\* the cards go on the pile as they are
addToDiscardPileAsIs(discardPile, cards) == discardPile \o cards

addToDiscardPile(discardPile, cards) == discardPile \o CleanCards(cards)

\* deck.splice(0, n): the cards removed and the deck that is left
SpliceHead(deck, n) ==
    LET k == IF n < Len(deck) THEN n ELSE Len(deck)
    IN [taken |-> SubSeq(deck, 1, k), rest |-> SubSeq(deck, k + 1, Len(deck))]

---------------------------------------------------------------------------
(* Hand evaluator *)

RECURSIVE InsertByRank(_, _)
InsertByRank(sorted, card) ==
    IF sorted = <<>> THEN <<card>>
    ELSE IF card.rank < Head(sorted).rank THEN <<card>> \o sorted
    ELSE <<Head(sorted)>> \o InsertByRank(Tail(sorted), card)

\* [...cards].sort((a, b) => a.rank - b.rank), a stable sort
RECURSIVE SortByRank(_)
SortByRank(cards) ==
    IF cards = <<>> THEN <<>>
    ELSE InsertByRank(SortByRank(SubSeq(cards, 1, Len(cards) - 1)), cards[Len(cards)])

RanksOf(cards) == LET sorted == SortByRank(cards) IN [i \in DOMAIN sorted |-> sorted[i].rank]
SuitsOf(cards) == LET sorted == SortByRank(cards) IN [i \in DOMAIN sorted |-> sorted[i].suit]

RankCount(ranks, r) == Cardinality({i \in DOMAIN ranks : ranks[i] = r})

RECURSIVE CountsDesc(_, _)
CountsDesc(ranks, keys) ==
    IF keys = {} THEN <<>>
    ELSE LET k == CHOOSE x \in keys : \A y \in keys : RankCount(ranks, x) >= RankCount(ranks, y)
         IN <<RankCount(ranks, k)>> \o CountsDesc(ranks, keys \ {k})

\* Object.values(rankCounts).sort((a, b) => b - a)
RankCounts(cards) ==
    LET ranks == RanksOf(cards) IN CountsDesc(ranks, {ranks[i] : i \in DOMAIN ranks})

\* counts[i] of the code (0-based); 0 stands for undefined, which equals no count
CountAt(counts, i) == IF i + 1 <= Len(counts) THEN counts[i + 1] ELSE 0

IsFlush(cards) ==
    LET suits == SuitsOf(cards)
    IN (\A i \in DOMAIN suits : suits[i] = suits[1]) /\ Len(cards) = 5

FiveDistinct(cards) ==
    LET ranks == RanksOf(cards)
    IN Len(cards) = 5 /\ Cardinality({ranks[i] : i \in DOMAIN ranks}) = 5

IsLowStraight(cards) == FiveDistinct(cards) /\ RanksOf(cards) = <<1, 2, 3, 4, 5>>
\* any five ranks from the ace to the king count as ace-high
IsAceToKing(cards) ==
    FiveDistinct(cards) /\ RanksOf(cards)[1] = 1 /\ RanksOf(cards)[5] = 13
IsBroadwayStraight(cards) == FiveDistinct(cards) /\ RanksOf(cards) = <<1, 10, 11, 12, 13>>
IsStraight(cards) ==
    /\ FiveDistinct(cards)
    /\ ~IsLowStraight(cards)
    /\ RanksOf(cards)[5] - RanksOf(cards)[1] = 4
IsRoyal(cards) == FiveDistinct(cards) /\ IsFlush(cards) /\ IsBroadwayStraight(cards)

Valid == [valid |-> TRUE, error |-> ""]
Invalid(error) == [valid |-> FALSE, error |-> error]

\* every selection of one to five cards is let through
validateHandLenient(cards) ==
    IF Len(cards) \in 1..5 THEN Valid ELSE Invalid("No cards selected")

validateHand(cards) ==
    LET counts == RankCounts(cards)
        n == Len(cards)
    IN IF n = 0 THEN Invalid("No cards selected")
       ELSE IF n = 1 THEN Valid
       ELSE IF n = 2 THEN
            (IF CountAt(counts, 0) # 2
             THEN Invalid("Two cards must be a pair (same rank)")
             ELSE Valid)
       ELSE IF n = 3 THEN
            (IF CountAt(counts, 0) # 3
             THEN Invalid("Three cards must be three of a kind (same rank)")
             ELSE Valid)
       ELSE IF n = 4 THEN
            (IF CountAt(counts, 0) = 4 THEN Valid
             ELSE IF CountAt(counts, 0) = 2 /\ CountAt(counts, 1) = 2 THEN Valid
             ELSE Invalid("Four cards must be either four of a kind or two pair"))
       ELSE IF n = 5 THEN
            (IF IsRoyal(cards) THEN Valid
             ELSE IF IsFlush(cards) /\ (IsStraight(cards) \/ IsLowStraight(cards)) THEN Valid
             ELSE IF CountAt(counts, 0) = 3 /\ CountAt(counts, 1) = 2 THEN Valid
             ELSE IF IsFlush(cards) THEN Valid
             ELSE IF IsStraight(cards) \/ IsLowStraight(cards) \/ IsBroadwayStraight(cards)
                  THEN Valid
             ELSE Invalid("5 cards must form: Straight, Flush, Full House, Straight Flush, or Royal Flush"))
       ELSE Invalid("Invalid number of cards: " \o ToString(n)
                    \o ". Play 1, 2, 3, 4, or 5 cards only.")

\* HAND_RANKINGS[type].damage
BaseDamage(type) ==
    CASE type = "Royal Flush" -> 150
      [] type = "Straight Flush" -> 80
      [] type = "Four of a Kind" -> 60
      [] type = "Full House" -> 45
      [] type = "Flush" -> 30
      [] type = "Straight" -> 25
      [] type = "Three of a Kind" -> 20
      [] type = "Two Pair" -> 10
      [] type = "One Pair" -> 5
      [] OTHER -> 1

\* HAND_RANKINGS[type].description
RankingDescription(type) ==
    CASE type = "Royal Flush" -> "A, K, Q, J, 10 of same suit"
      [] type = "Straight Flush" -> "5 consecutive cards of same suit"
      [] type = "Four of a Kind" -> "4 cards of same rank"
      [] type = "Full House" -> "3 of a kind + pair"
      [] type = "Flush" -> "5 cards of same suit"
      [] type = "Straight" -> "5 consecutive cards"
      [] type = "Three of a Kind" -> "3 cards of same rank"
      [] type = "Two Pair" -> "2 pairs of different ranks"
      [] type = "One Pair" -> "2 cards of same rank"
      [] OTHER -> "Highest card"

\* the ace counts 1
FaceValueAceLow(card) == card.rank
FaceValue(card) == IF card.rank = 1 THEN 14 ELSE card.rank

RECURSIVE FaceValueDamage(_)
FaceValueDamage(cards) ==
    IF cards = <<>> THEN 0 ELSE FaceValue(Head(cards)) + FaceValueDamage(Tail(cards))

\* the flush is looked for before the straight flush and the royal flush
HandTypeFlushFirst(cards) ==
    LET counts == RankCounts(cards)
    IN IF IsFlush(cards) THEN "Flush"
       ELSE IF CountAt(counts, 0) = 4 THEN "Four of a Kind"
       ELSE IF CountAt(counts, 0) = 3 /\ CountAt(counts, 1) = 2 THEN "Full House"
       ELSE IF IsStraight(cards) \/ IsLowStraight(cards) \/ IsBroadwayStraight(cards)
            THEN "Straight"
       ELSE IF CountAt(counts, 0) = 3 THEN "Three of a Kind"
       ELSE IF CountAt(counts, 0) = 2 /\ CountAt(counts, 1) = 2 THEN "Two Pair"
       ELSE IF CountAt(counts, 0) = 2 THEN "One Pair"
       ELSE "High Card"

HandType(cards) ==
    LET counts == RankCounts(cards)
    IN IF IsRoyal(cards) THEN "Royal Flush"
       ELSE IF IsFlush(cards) /\ (IsStraight(cards) \/ IsLowStraight(cards)) THEN "Straight Flush"
       ELSE IF CountAt(counts, 0) = 4 THEN "Four of a Kind"
       ELSE IF CountAt(counts, 0) = 3 /\ CountAt(counts, 1) = 2 THEN "Full House"
       ELSE IF IsFlush(cards) THEN "Flush"
       ELSE IF IsStraight(cards) \/ IsLowStraight(cards) \/ IsBroadwayStraight(cards)
            THEN "Straight"
       ELSE IF CountAt(counts, 0) = 3 THEN "Three of a Kind"
       ELSE IF CountAt(counts, 0) = 2 /\ CountAt(counts, 1) = 2 THEN "Two Pair"
       ELSE IF CountAt(counts, 0) = 2 THEN "One Pair"
       ELSE "High Card"

evaluateHand(cards) ==
    IF Len(cards) = 0
    THEN [type |-> "No Cards", damage |-> 0, description |-> "No cards selected"]
    ELSE LET validation == validateHand(cards) IN
         IF ~validation.valid
         THEN [type |-> "Invalid Hand", damage |-> 0,
               description |-> IF Truthy(validation.error) THEN validation.error
                               ELSE "Invalid combination"]
         ELSE LET handType == HandType(cards)
                  baseDamage == BaseDamage(handType)
                  faceValueDamage == FaceValueDamage(cards)
              IN [type |-> handType,
                  damage |-> baseDamage + faceValueDamage,
                  description |-> RankingDescription(handType) \o " (Base: "
                                  \o ToString(baseDamage) \o " + Face: "
                                  \o ToString(faceValueDamage) \o ")"]

---------------------------------------------------------------------------
(* The client's preview of a selection (GameRoom.tsx) *)

\* HAND_RANKINGS[type].damage of the client
PreviewBaseDamage(type) ==
    CASE type = "Royal Flush" -> 150
      [] type = "Straight Flush" -> 80
      [] type = "Four of a Kind" -> 60
      [] type = "Full House" -> 45
      [] type = "Flush" -> 30
      [] type = "Straight" -> 25
      [] type = "Three of a Kind" -> 20
      [] type = "Two Pair" -> 10
      [] type = "One Pair" -> 5
      [] OTHER -> 1

\* isRoyal = isFlush && ranks.join(",") === "1,10,11,12,13"
PreviewIsRoyal(cards) ==
    FiveDistinct(cards) /\ IsFlush(cards) /\ RanksOf(cards) = <<1, 10, 11, 12, 13>>

validateHandPreview(cards) ==
    LET counts == RankCounts(cards)
        n == Len(cards)
    IN IF n = 0 THEN Invalid("No cards selected")
       ELSE IF n = 1 THEN Valid
       ELSE IF n = 2 THEN
            (IF CountAt(counts, 0) # 2
             THEN Invalid("Two cards must be a pair (same rank)")
             ELSE Valid)
       ELSE IF n = 3 THEN
            (IF CountAt(counts, 0) # 3
             THEN Invalid("Three cards must be three of a kind (same rank)")
             ELSE Valid)
       ELSE IF n = 4 THEN
            (IF CountAt(counts, 0) = 4 THEN Valid
             ELSE IF CountAt(counts, 0) = 2 /\ CountAt(counts, 1) = 2 THEN Valid
             ELSE Invalid("Four cards must be either four of a kind or two pair"))
       ELSE IF n = 5 THEN
            (IF PreviewIsRoyal(cards) THEN Valid
             ELSE IF IsFlush(cards) /\ (IsStraight(cards) \/ IsLowStraight(cards)) THEN Valid
             ELSE IF CountAt(counts, 0) = 3 /\ CountAt(counts, 1) = 2 THEN Valid
             ELSE IF IsFlush(cards) THEN Valid
             ELSE IF IsStraight(cards) \/ IsLowStraight(cards) THEN Valid
             ELSE Invalid("5 cards must form: Straight, Flush, Full House, Straight Flush, or Royal Flush"))
       ELSE Invalid("Invalid number of cards: " \o ToString(n)
                    \o ". Play 1, 2, 3, 4, or 5 cards only.")

PreviewHandType(cards) ==
    LET counts == RankCounts(cards)
    IN IF PreviewIsRoyal(cards) THEN "Royal Flush"
       ELSE IF IsFlush(cards) /\ (IsStraight(cards) \/ IsLowStraight(cards)) THEN "Straight Flush"
       ELSE IF CountAt(counts, 0) = 4 THEN "Four of a Kind"
       ELSE IF CountAt(counts, 0) = 3 /\ CountAt(counts, 1) = 2 THEN "Full House"
       ELSE IF IsFlush(cards) THEN "Flush"
       ELSE IF IsStraight(cards) \/ IsLowStraight(cards) THEN "Straight"
       ELSE IF CountAt(counts, 0) = 3 THEN "Three of a Kind"
       ELSE IF CountAt(counts, 0) = 2 /\ CountAt(counts, 1) = 2 THEN "Two Pair"
       ELSE IF CountAt(counts, 0) = 2 THEN "One Pair"
       ELSE "High Card"

calculateDamagePreview(cards) ==
    IF Len(cards) = 0 THEN [type |-> "No Cards", damage |-> 0, valid |-> FALSE]
    ELSE IF ~validateHandPreview(cards).valid
         THEN [type |-> "Invalid", damage |-> 0, valid |-> FALSE]
         ELSE [type |-> PreviewHandType(cards),
               damage |-> PreviewBaseDamage(PreviewHandType(cards))
                              + FaceValueDamage(cards),
               valid |-> TRUE]

---------------------------------------------------------------------------
(* The single-mode server's evaluator (src/unnamed/part_000) *)

\* HAND_RANKINGS[type].damage of the single-mode server
BaseDamageSingle(type) ==
    CASE type = "Royal Flush" -> 50
      [] type = "Straight Flush" -> 40
      [] type = "Four of a Kind" -> 35
      [] type = "Full House" -> 30
      [] type = "Flush" -> 25
      [] type = "Straight" -> 20
      [] type = "Three of a Kind" -> 15
      [] type = "Two Pair" -> 10
      [] type = "One Pair" -> 5
      [] OTHER -> 1

\* cards.length === 5 && ranks[4] - ranks[0] === 4 && new Set(ranks).size === 5
IsStraightSingle(cards) ==
    FiveDistinct(cards) /\ RanksOf(cards)[5] - RanksOf(cards)[1] = 4

\* isFlush && isStraight && ranks.join(",") === "1,10,11,12,13"
IsRoyalSingle(cards) ==
    IsFlush(cards) /\ IsStraightSingle(cards) /\ RanksOf(cards) = <<1, 10, 11, 12, 13>>

validateHandSingle(cards) ==
    LET counts == RankCounts(cards)
        n == Len(cards)
    IN IF n = 0 THEN Invalid("No cards selected")
       ELSE IF n = 1 THEN Valid
       ELSE IF n = 2 THEN
            (IF CountAt(counts, 0) # 2
             THEN Invalid("Two cards must be a pair (same rank)")
             ELSE Valid)
       ELSE IF n = 3 THEN
            (IF CountAt(counts, 0) # 3
             THEN Invalid("Three cards must be three of a kind (same rank)")
             ELSE Valid)
       ELSE IF n = 4 THEN
            (IF CountAt(counts, 0) = 4 THEN Valid
             ELSE IF CountAt(counts, 0) = 2 /\ CountAt(counts, 1) = 2 THEN Valid
             ELSE Invalid("Four cards must be either four of a kind or two pair"))
       ELSE IF n = 5 THEN
            (IF IsRoyalSingle(cards) THEN Valid
             ELSE IF IsFlush(cards) /\ (IsStraightSingle(cards) \/ IsLowStraight(cards))
                  THEN Valid
             ELSE IF CountAt(counts, 0) = 3 /\ CountAt(counts, 1) = 2 THEN Valid
             ELSE IF IsFlush(cards) THEN Valid
             ELSE IF IsStraightSingle(cards) \/ IsLowStraight(cards) THEN Valid
             ELSE Invalid("5 cards must form: Straight, Flush, Full House, Straight Flush, or Royal Flush"))
       ELSE Invalid("Invalid number of cards: " \o ToString(n)
                    \o ". Play 1, 2, 3, 4, or 5 cards only.")

HandTypeSingle(cards) ==
    LET counts == RankCounts(cards)
    IN IF IsRoyalSingle(cards) THEN "Royal Flush"
       ELSE IF IsFlush(cards) /\ (IsStraightSingle(cards) \/ IsLowStraight(cards))
            THEN "Straight Flush"
       ELSE IF CountAt(counts, 0) = 4 THEN "Four of a Kind"
       ELSE IF CountAt(counts, 0) = 3 /\ CountAt(counts, 1) = 2 THEN "Full House"
       ELSE IF IsFlush(cards) THEN "Flush"
       ELSE IF IsStraightSingle(cards) \/ IsLowStraight(cards) THEN "Straight"
       ELSE IF CountAt(counts, 0) = 3 THEN "Three of a Kind"
       ELSE IF CountAt(counts, 0) = 2 /\ CountAt(counts, 1) = 2 THEN "Two Pair"
       ELSE IF CountAt(counts, 0) = 2 THEN "One Pair"
       ELSE "High Card"

evaluateHandSingle(cards) ==
    IF Len(cards) = 0
    THEN [type |-> "No Cards", damage |-> 0, description |-> "No cards selected"]
    ELSE LET validation == validateHandSingle(cards) IN
         IF ~validation.valid
         THEN [type |-> "Invalid Hand", damage |-> 0,
               description |-> IF Truthy(validation.error) THEN validation.error
                               ELSE "Invalid combination"]
         ELSE LET handType == HandTypeSingle(cards)
                  baseDamage == BaseDamageSingle(handType)
                  faceValueDamage == FaceValueDamage(cards)
              IN [type |-> handType,
                  damage |-> baseDamage + faceValueDamage,
                  description |-> RankingDescription(handType) \o " (Base: "
                                  \o ToString(baseDamage) \o " + Face: "
                                  \o ToString(faceValueDamage) \o ")"]

---------------------------------------------------------------------------
(* Players, rooms and events *)

NoRoom == 0

\* { id: socket.id, name, roomId: null }: every game field is still undefined
NewPlayer(s) ==
    [id |-> s, roomId |-> NoRoom, init |-> FALSE,
     health |-> Undefined, maxHealth |-> Undefined,
     deck |-> <<>>, hand |-> <<>>, selectedCards |-> <<>>, discardPile |-> <<>>,
     discardsUsed |-> Undefined, discardCooldown |-> Undefined,
     maxDiscards |-> Undefined, maxCardsPerDiscard |-> Undefined,
     armor |-> Undefined, prediction |-> ""]

NoHand == [type |-> "", damage |-> 0, description |-> ""]

NewRoom(gameMode, ref) ==
    [gameMode |-> gameMode, players |-> <<ref>>, gameState |-> "waiting",
     currentPlayer |-> 0, turn |-> 1, lastPlayedHand |-> NoHand]

\* An emitted event: kind says who receives it ("sender": socket.emit, "room":
\* io.to(roomId), "others": socket.to(roomId), "socket": io.to(player.id),
\* "all": io.emit), id the socket or room, msg and arg the payload.
Event(name, kind, id, msg, arg) ==
    [name |-> name, kind |-> kind, id |-> id, msg |-> msg, arg |-> arg]

Connected(s) == ~crashed /\ s \notin disconnected

\* room.players.findIndex((p) => p.id === socket.id)
FindIndex(heap, refs, s) ==
    IF \E i \in DOMAIN refs : heap[refs[i]].id = s
    THEN (CHOOSE i \in DOMAIN refs :
              /\ heap[refs[i]].id = s
              /\ \A k \in 1..(i - 1) : heap[refs[k]].id # s) - 1
    ELSE -1

\* the card objects player.selectedCards refers to
SelectedObjects(player) ==
    [i \in DOMAIN player.selectedCards |->
        CHOOSE c \in {player.hand[k] : k \in DOMAIN player.hand} :
            c.id = player.selectedCards[i]]

IsSelected(card) == card.selected
NotSelected(card) == ~card.selected

\* hand.filter((c) => c.selected), as references
SelectedIds(hand) ==
    LET chosen == SelectSeq(hand, IsSelected) IN [i \in DOMAIN chosen |-> chosen[i].id]

Range(f) == {f[x] : x \in DOMAIN f}

Referenced(rs, ps) == Range(ps) \cup UNION {Range(rs[r].players) : r \in DOMAIN rs}

\* Objects no room and no session refers to are unreachable.
Collect(heap, rs, ps) == [o \in DOMAIN heap \cap Referenced(rs, ps) |-> heap[o]]

\* The address of a new player object: any free one. The model takes the
\* socket's own number when that is free, and otherwise the first free one.
FreshRef(s, used) ==
    IF s \notin used THEN s
    ELSE CHOOSE n \in 1..(Cardinality(used) + 1) :
             n \notin used /\ \A m \in 1..(n - 1) : m \in used

RemoveKey(f, k) == [x \in DOMAIN f \ {k} |-> f[x]]

\* a handler that returns without doing anything
Drop ==
    /\ emitted' = <<>>
    /\ UNCHANGED <<rooms, players, objs, timers, nextRoomId, disconnected, crashed>>

\* a handler that only emits
EmitOnly(events) ==
    /\ emitted' = events
    /\ UNCHANGED <<rooms, players, objs, timers, nextRoomId, disconnected, crashed>>

\* a handler that dereferences undefined before it has changed anything: the
\* TypeError is uncaught and the server takes no further request
Crash ==
    /\ crashed' = TRUE
    /\ emitted' = <<>>
    /\ UNCHANGED <<rooms, players, objs, timers, nextRoomId, disconnected>>

\* room.players.map((p) => ({ ..., handSize: p.hand.length, ... })) in the
\* payload of gameStateUpdate, handPlayed and armorBuilt: with every player of
\* the room dealt the events are emitted; a player who was never dealt has no
\* hand, the TypeError is thrown after the handler has changed the state, and
\* nothing is emitted
EmitPlayers(roomId, events) ==
    IF \A i \in DOMAIN rooms[roomId].players : objs[rooms[roomId].players[i]].init
    THEN emitted' = events /\ UNCHANGED crashed
    ELSE emitted' = <<>> /\ crashed' = TRUE

---------------------------------------------------------------------------
(* Lobby handlers *)

setPlayerName(s) ==
    /\ Connected(s)
    /\ LET others == Referenced(rooms, RemoveKey(players, s))
           ref == FreshRef(s, others)
           ps == (s :> ref) @@ players
       IN /\ players' = ps
          /\ objs' = Collect((ref :> NewPlayer(s)) @@ objs, rooms, ps)
    /\ emitted' = <<Event("playerSet", "sender", s, "", s)>>
    /\ UNCHANGED <<rooms, timers, nextRoomId, disconnected, crashed>>

createRoom(s, gameMode) ==
    /\ Connected(s)
    /\ IF s \notin DOMAIN players
       THEN EmitOnly(<<Event("error", "sender", s, "Player not found", 0)>>)
       ELSE LET roomId == nextRoomId
                ref == players[s]
            IN /\ rooms' = (roomId :> NewRoom(gameMode, ref)) @@ rooms
               /\ objs' = [objs EXCEPT ![ref].roomId = roomId]
               /\ nextRoomId' = nextRoomId + 1
               /\ emitted' = <<Event("roomCreated", "sender", s, "", roomId),
                               Event("roomsUpdated", "all", 0, "", 0)>>
               /\ UNCHANGED <<players, timers, disconnected, crashed>>

\* joinRoom without the check of room.players.length
joinRoomUnbounded(s, roomId) ==
    /\ Connected(s)
    /\ IF roomId \notin DOMAIN rooms
       THEN EmitOnly(<<Event("error", "sender", s, "Room not found", 0)>>)
       ELSE IF s \notin DOMAIN players
       THEN EmitOnly(<<Event("error", "sender", s, "Player not found", 0)>>)
       ELSE IF \E i \in DOMAIN rooms[roomId].players : objs[rooms[roomId].players[i]].id = s
       THEN EmitOnly(<<Event("error", "sender", s, "You are already in this room", 0)>>)
       ELSE LET ref == players[s]
                joined == Append(rooms[roomId].players, ref)
            IN /\ rooms' = [rooms EXCEPT ![roomId].players = joined]
               /\ objs' = [objs EXCEPT ![ref].roomId = roomId]
               /\ emitted' = <<Event("playerJoined", "room", roomId, "", s),
                               Event("roomsUpdated", "all", 0, "", 0)>>
               /\ timers' = IF Len(joined) = 2 THEN Append(timers, roomId) ELSE timers
               /\ UNCHANGED <<players, nextRoomId, disconnected, crashed>>

joinRoom(s, roomId) ==
    /\ Connected(s)
    /\ IF roomId \notin DOMAIN rooms
       THEN EmitOnly(<<Event("error", "sender", s, "Room not found", 0)>>)
       ELSE IF s \notin DOMAIN players
       THEN EmitOnly(<<Event("error", "sender", s, "Player not found", 0)>>)
       ELSE IF Len(rooms[roomId].players) >= 2
       THEN EmitOnly(<<Event("error", "sender", s, "Room is full", 0)>>)
       ELSE IF \E i \in DOMAIN rooms[roomId].players : objs[rooms[roomId].players[i]].id = s
       THEN EmitOnly(<<Event("error", "sender", s, "You are already in this room", 0)>>)
       ELSE LET ref == players[s]
                joined == Append(rooms[roomId].players, ref)
            IN /\ rooms' = [rooms EXCEPT ![roomId].players = joined]
               /\ objs' = [objs EXCEPT ![ref].roomId = roomId]
               /\ emitted' = <<Event("playerJoined", "room", roomId, "", s),
                               Event("roomsUpdated", "all", 0, "", 0)>>
               /\ timers' = IF Len(joined) = 2 THEN Append(timers, roomId) ELSE timers
               /\ UNCHANGED <<players, nextRoomId, disconnected, crashed>>

\* startMultiplayerGame's room.players.forEach body; rnd is createDeck's random source
StartPlayer(player, gameMode, rnd) ==
    LET dealt == SpliceHead(createDeck(rnd), HandSize)
        common == [player EXCEPT
                      !.init = TRUE,
                      !.health = StartingHealth(gameMode),
                      !.maxHealth = StartingHealth(gameMode),
                      !.deck = dealt.rest,
                      !.hand = dealt.taken,
                      !.selectedCards = <<>>,
                      !.discardsUsed = 0,
                      !.discardCooldown = 0,
                      !.maxDiscards = MaxDiscardsInit,
                      !.maxCardsPerDiscard = MaxCardsPerDiscardInit,
                      !.discardPile = <<>>]
    IN IF gameMode = TACTICAL
       THEN [common EXCEPT !.armor = 0, !.prediction = ""]
       ELSE common

\* first is Math.floor(Math.random() * 2); rnds[i] is the i-th createDeck's source
startMultiplayerGame(roomId, first, rnds) ==
    LET room == rooms[roomId]
        refs == room.players
        started == [o \in DOMAIN objs |->
                       IF \E i \in DOMAIN refs : refs[i] = o
                       THEN StartPlayer(objs[o], room.gameMode,
                                        rnds[CHOOSE i \in DOMAIN refs : refs[i] = o])
                       ELSE objs[o]]
    IN /\ objs' = started
       /\ rooms' = [rooms EXCEPT ![roomId].gameState = "playing",
                                 ![roomId].currentPlayer = first,
                                 ![roomId].turn = 1]
       /\ emitted' = <<Event("gameStarted", "room", roomId, room.gameMode, first)>>
                     \o [i \in DOMAIN refs |->
                            Event("gameStarted", "socket", objs[refs[i]].id,
                                  room.gameMode, first)]

\* the deferred start without the check of room.players.length
startGameAnyCount(first, rnds) ==
    /\ ~crashed
    /\ timers # <<>>
    /\ timers' = Tail(timers)
    /\ LET roomId == Head(timers) IN
       IF roomId \notin DOMAIN rooms
       THEN emitted' = <<>> /\ UNCHANGED <<rooms, objs>>
       ELSE startMultiplayerGame(roomId, first, rnds)
    /\ UNCHANGED <<players, nextRoomId, disconnected, crashed>>

\* the deferred startGame(roomId) of the oldest pending timer fires
startGame(first, rnds) ==
    /\ ~crashed
    /\ timers # <<>>
    /\ timers' = Tail(timers)
    /\ LET roomId == Head(timers) IN
       IF roomId \notin DOMAIN rooms
       THEN emitted' = <<>> /\ UNCHANGED <<rooms, objs>>
       ELSE IF Len(rooms[roomId].players) # 2
       THEN emitted' = <<>> /\ UNCHANGED <<rooms, objs>>
       ELSE startMultiplayerGame(roomId, first, rnds)
    /\ UNCHANGED <<players, nextRoomId, disconnected, crashed>>

\* the part leaveRoom and disconnect share: the room loses every player of the socket
RoomsWithout(roomId, s) ==
    LET left == SelectSeq(rooms[roomId].players, LAMBDA ref : objs[ref].id # s)
    IN IF Len(left) = 0
       THEN RemoveKey(rooms, roomId)
       ELSE [rooms EXCEPT ![roomId].players = left]

LeftEvents(roomId, s) ==
    (IF roomId \in DOMAIN RoomsWithout(roomId, s)
     THEN <<Event("playerLeft", "room", roomId, "", s)>>
     ELSE <<>>) \o <<Event("roomsUpdated", "all", 0, "", 0)>>

leaveRoom(s) ==
    /\ Connected(s)
    /\ IF s \in DOMAIN players /\ objs[players[s]].roomId # NoRoom
          /\ objs[players[s]].roomId \in DOMAIN rooms
       THEN LET roomId == objs[players[s]].roomId
                rs == RoomsWithout(roomId, s)
            IN /\ rooms' = rs
               /\ objs' = Collect([objs EXCEPT ![players[s]].roomId = NoRoom], rs, players)
               /\ emitted' = LeftEvents(roomId, s)
               /\ UNCHANGED <<players, timers, nextRoomId, disconnected, crashed>>
       ELSE Drop

disconnect(s) ==
    /\ Connected(s)
    /\ disconnected' = disconnected \cup {s}
    /\ players' = RemoveKey(players, s)
    /\ IF s \in DOMAIN players /\ objs[players[s]].roomId # NoRoom
          /\ objs[players[s]].roomId \in DOMAIN rooms
       THEN LET roomId == objs[players[s]].roomId
                rs == RoomsWithout(roomId, s)
            IN /\ rooms' = rs
               /\ objs' = Collect(objs, rs, RemoveKey(players, s))
               /\ emitted' = LeftEvents(roomId, s)
       ELSE /\ rooms' = rooms
            /\ objs' = Collect(objs, rooms, RemoveKey(players, s))
            /\ emitted' = <<>>
    /\ UNCHANGED <<timers, nextRoomId, crashed>>

---------------------------------------------------------------------------
(* Game handlers *)

\* the guard selectCard, markForDiscard, discardCards and playHand start with:
\* if (!room || !player || room.gameState !== "playing") return;
NotInPlay(s, roomId) ==
    \/ roomId \notin DOMAIN rooms
    \/ s \notin DOMAIN players
    \/ rooms[roomId].gameState # "playing"

\* any player of the room passes, whoever's turn it is
IsTurnOfMember(s, roomId) == FindIndex(objs, rooms[roomId].players, s) # -1

\* playerIndex === room.currentPlayer
IsTurnOf(s, roomId) ==
    FindIndex(objs, rooms[roomId].players, s) = rooms[roomId].currentPlayer

\* the reference room.players[playerIndex] of the socket's player
RefOf(s, roomId) ==
    rooms[roomId].players[FindIndex(objs, rooms[roomId].players, s) + 1]

HasCard(hand, cardId) == \E k \in DOMAIN hand : hand[k].id = cardId

ToggleSelected(hand, cardId) ==
    [k \in DOMAIN hand |->
        IF hand[k].id = cardId /\ \A m \in 1..(k - 1) : hand[m].id # cardId
        THEN [hand[k] EXCEPT !.selected = ~hand[k].selected]
        ELSE hand[k]]

ToggleMarked(hand, cardId) ==
    [k \in DOMAIN hand |->
        IF hand[k].id = cardId /\ \A m \in 1..(k - 1) : hand[m].id # cardId
        THEN [hand[k] EXCEPT !.markedForDiscard = ~hand[k].markedForDiscard]
        ELSE hand[k]]

selectCard(s, roomId, cardId) ==
    /\ Connected(s)
    /\ IF NotInPlay(s, roomId) THEN Drop
       ELSE IF ~IsTurnOf(s, roomId) THEN Drop
       ELSE LET ref == RefOf(s, roomId)
                currentPlayer == objs[ref]
            IN IF ~currentPlayer.init THEN Crash       \* undefined.find
               ELSE IF ~HasCard(currentPlayer.hand, cardId) THEN Drop
               ELSE LET hand == ToggleSelected(currentPlayer.hand, cardId)
                    IN /\ objs' = [objs EXCEPT ![ref].hand = hand,
                                               ![ref].selectedCards = SelectedIds(hand)]
                       /\ emitted' = <<Event("cardSelected", "room", roomId, "",
                                             rooms[roomId].currentPlayer)>>
                       /\ UNCHANGED <<rooms, players, timers, nextRoomId,
                                      disconnected, crashed>>

markForDiscard(s, roomId, cardId) ==
    /\ Connected(s)
    /\ IF NotInPlay(s, roomId) THEN Drop
       ELSE IF ~IsTurnOf(s, roomId) THEN Drop
       ELSE LET ref == RefOf(s, roomId)
                currentPlayer == objs[ref]
            IN IF ~currentPlayer.init THEN Crash       \* undefined.find
               ELSE IF ~HasCard(currentPlayer.hand, cardId) THEN Drop
               ELSE /\ objs' = [objs EXCEPT
                                   ![ref].hand = ToggleMarked(currentPlayer.hand, cardId)]
                    /\ emitted' = <<Event("cardMarkedForDiscard", "room", roomId, "",
                                          rooms[roomId].currentPlayer)>>
                    /\ UNCHANGED <<rooms, players, timers, nextRoomId,
                                   disconnected, crashed>>

\* the same without the limit on the number of cards
DiscardRejectedAnySize(player) ==
    \/ Len(player.selectedCards) = 0
    \/ player.discardsUsed >= player.maxDiscards
    \/ player.discardCooldown > 0

\* the condition under which discardCards returns silently (index.js:567-573)
DiscardRejected(player) ==
    \/ Len(player.selectedCards) = 0
    \/ Len(player.selectedCards) > player.maxCardsPerDiscard
    \/ player.discardsUsed >= player.maxDiscards
    \/ player.discardCooldown > 0

\* the discarded cards leave the hand but never reach the discard pile
DiscardSelectedLost(player, deck, discardPile) ==
    LET drawn == SpliceHead(deck, Len(player.selectedCards))
        used == player.discardsUsed + 1
    IN [player EXCEPT
           !.hand = SelectSeq(player.hand, NotSelected) \o CleanCards(drawn.taken),
           !.discardPile = discardPile,
           !.deck = drawn.rest,
           !.selectedCards = <<>>,
           !.discardsUsed = used,
           !.discardCooldown = IF used >= player.maxDiscards THEN CooldownTurns
                               ELSE player.discardCooldown]

\* index.js:591-613: the player after the discard; deck and discardPile are
\* the ones ensureDeckHasCards left
DiscardSelected(player, deck, discardPile) ==
    LET selectedCards == SelectedObjects(player)
        drawn == SpliceHead(deck, Len(selectedCards))
        used == player.discardsUsed + 1
    IN [player EXCEPT
           !.hand = SelectSeq(player.hand, NotSelected) \o CleanCards(drawn.taken),
           !.discardPile = addToDiscardPile(discardPile, selectedCards),
           !.deck = drawn.rest,
           !.selectedCards = <<>>,
           !.discardsUsed = used,
           !.discardCooldown = IF used >= player.maxDiscards THEN CooldownTurns
                               ELSE player.discardCooldown]

discardCards(s, roomId, rnd) ==
    /\ Connected(s)
    /\ IF NotInPlay(s, roomId) THEN Drop
       ELSE IF ~IsTurnOf(s, roomId) THEN Drop
       ELSE LET ref == RefOf(s, roomId)
                currentPlayer == objs[ref]
            IN IF ~currentPlayer.init THEN Crash       \* undefined.length
               ELSE IF DiscardRejected(currentPlayer) THEN Drop
               ELSE LET ensured == ensureDeckHasCards(currentPlayer.deck,
                                       currentPlayer.discardPile,
                                       Len(currentPlayer.selectedCards), rnd)
                    IN /\ IF ~ensured.ok
                          THEN /\ objs' = [objs EXCEPT
                                              ![ref].deck = ensured.deck,
                                              ![ref].discardPile = ensured.discardPile]
                               /\ emitted' = <<Event("error", "sender", s,
                                     "Not enough cards available to complete discard", 0)>>
                               /\ UNCHANGED crashed
                          ELSE /\ objs' = [objs EXCEPT ![ref] =
                                     DiscardSelected(currentPlayer, ensured.deck,
                                                     ensured.discardPile)]
                               /\ EmitPlayers(roomId,
                                     <<Event("gameStateUpdate", "room", roomId, "",
                                             rooms[roomId].currentPlayer)>>)
                       /\ UNCHANGED <<rooms, players, timers, nextRoomId, disconnected>>

makePrediction(s, roomId, prediction) ==
    /\ Connected(s)
    /\ IF roomId \notin DOMAIN rooms \/ s \notin DOMAIN players THEN Drop
       ELSE IF rooms[roomId].gameMode # TACTICAL THEN Drop
       ELSE LET playerIndex == FindIndex(objs, rooms[roomId].players, s)
            IN IF playerIndex = rooms[roomId].currentPlayer
               THEN EmitOnly(<<Event("error", "sender", s,
                                     "You cannot predict your own hand", 0)>>)
               ELSE IF playerIndex = -1 THEN Crash     \* undefined.prediction = ...
               ELSE /\ objs' = [objs EXCEPT
                                   ![rooms[roomId].players[playerIndex + 1]].prediction
                                       = prediction]
                    /\ emitted' = <<Event("predictionMade", "room", roomId,
                                          prediction, playerIndex)>>
                    /\ UNCHANGED <<rooms, players, timers, nextRoomId,
                                   disconnected, crashed>>

\* the two multipliers the wrong way round
AfterPredictionSwapped(gameMode, enemyPlayer, handResult) ==
    IF gameMode = TACTICAL /\ Truthy(enemyPlayer.prediction)
    THEN IF enemyPlayer.prediction = handResult.type
         THEN (handResult.damage * 5) \div 4
         ELSE handResult.damage \div 4
    ELSE handResult.damage

\* index.js:683-703: the damage after the defender's prediction
AfterPrediction(gameMode, enemyPlayer, handResult) ==
    IF gameMode = TACTICAL /\ Truthy(enemyPlayer.prediction)
    THEN IF enemyPlayer.prediction = handResult.type
         THEN handResult.damage \div 4            \* Math.floor(damage * 0.25)
         ELSE (handResult.damage * 5) \div 4      \* Math.floor(damage * 1.25)
    ELSE handResult.damage

PredictionAfter(gameMode, enemyPlayer) ==
    IF gameMode = TACTICAL /\ Truthy(enemyPlayer.prediction) THEN ""
    ELSE enemyPlayer.prediction

\* the armor takes the whole hit, however little armor there is
ArmorAbsorbsAll(gameMode, enemyPlayer, damage) ==
    IF gameMode = TACTICAL /\ JsPositive(enemyPlayer.armor) THEN damage ELSE 0

\* index.js:705-713: what the defender's armor absorbs
ArmorAbsorbed(gameMode, enemyPlayer, damage) ==
    IF gameMode = TACTICAL /\ JsPositive(enemyPlayer.armor)
    THEN JsMin(enemyPlayer.armor, damage)
    ELSE 0

\* index.js:680-716: the defender after the hit
HitEnemy(gameMode, enemyPlayer, handResult) ==
    LET damage == AfterPrediction(gameMode, enemyPlayer, handResult)
        absorbed == ArmorAbsorbed(gameMode, enemyPlayer, damage)
        finalDamage == damage - absorbed
    IN [player |-> [enemyPlayer EXCEPT
                       !.prediction = PredictionAfter(gameMode, enemyPlayer),
                       !.armor = IF gameMode = TACTICAL /\ JsPositive(enemyPlayer.armor)
                                 THEN enemyPlayer.armor - absorbed
                                 ELSE enemyPlayer.armor,
                       !.health = JsMax0(JsMinus(enemyPlayer.health, finalDamage))],
        finalDamage |-> finalDamage]

\* every mode takes the else branch: the whole hand is replaced
ReplacesWholeHand(gameMode) == FALSE

\* if (room.gameMode === GAME_MODES.CLASSIC || GAME_MODES.RECYCLING)
ReplacesPlayedOnly(gameMode) == gameMode = CLASSIC \/ Truthy(RECYCLING)

\* index.js:718-780: the actor after the played cards left the hand
Replenish(gameMode, player, rnd) ==
    LET playedCards == SelectSeq(player.hand, IsSelected)
        kept == SelectSeq(player.hand, NotSelected)
        pile == addToDiscardPile(player.discardPile, playedCards)
    IN IF ReplacesPlayedOnly(gameMode)
       THEN LET ensured == ensureDeckHasCards(player.deck, pile, Len(playedCards), rnd)
                drawn == SpliceHead(ensured.deck, Len(playedCards))
            IN [player EXCEPT !.hand = kept \o CleanCards(drawn.taken),
                              !.selectedCards = <<>>,
                              !.deck = drawn.rest,
                              !.discardPile = ensured.discardPile]
       ELSE LET ensured == ensureDeckHasCards(player.deck, pile, HandSize, rnd)
                drawn == SpliceHead(ensured.deck, HandSize)
            IN [player EXCEPT !.hand = CleanCards(drawn.taken),
                              !.selectedCards = <<>>,
                              !.deck = drawn.rest,
                              !.discardPile = ensured.discardPile]

\* the cooldown runs out but discardsUsed is never reset
TickRecyclingNoReset(gameMode, player) ==
    IF JsPositive(player.discardCooldown) /\ gameMode = RECYCLING
    THEN [player EXCEPT !.discardCooldown = player.discardCooldown - 1]
    ELSE player

\* index.js:804-813: playHand's cooldown tick
TickRecycling(gameMode, player) ==
    IF JsPositive(player.discardCooldown) /\ gameMode = RECYCLING
    THEN [player EXCEPT !.discardCooldown = player.discardCooldown - 1,
                        !.discardsUsed = IF player.discardCooldown - 1 = 0 THEN 0
                                         ELSE player.discardsUsed]
    ELSE player

\* room.players.forEach of the tick, on the heap
TickAllRecycling(heap, refs, gameMode) ==
    [o \in DOMAIN heap |->
        IF o \in Range(refs) THEN TickRecycling(gameMode, heap[o]) ELSE heap[o]]

\* the invalid hand is dropped without a word
RejectHandSilently(s, validation) == Drop

\* index.js:672-678 and 866-870: socket.emit("invalidHand", validation.error); return
RejectHand(s, validation) ==
    EmitOnly(<<Event("invalidHand", "sender", s, validation.error, 0)>>)

\* the turn passes but is not counted
PassTurnUncounted(room) == [room EXCEPT !.currentPlayer = 1 - room.currentPlayer]

\* index.js:801-802 and 946-947: room.currentPlayer = 1 - room.currentPlayer; room.turn++
PassTurn(room) ==
    [room EXCEPT !.currentPlayer = 1 - room.currentPlayer, !.turn = room.turn + 1]

\* index.js:680-835: a valid hand is played against an opponent
PlayValid(s, roomId, rnd) ==
    LET room == rooms[roomId]
        ref == RefOf(s, roomId)
        currentPlayer == objs[ref]
        enemyRef == room.players[(1 - room.currentPlayer) + 1]
        handResult == evaluateHand(SelectedObjects(currentPlayer))
        hit == HitEnemy(room.gameMode, objs[enemyRef], handResult)
        lastPlayedHand == [handResult EXCEPT !.damage = hit.finalDamage]
        played == [objs EXCEPT ![enemyRef] = hit.player,
                               ![ref] = Replenish(room.gameMode, currentPlayer, rnd)]
    IN /\ IF JsNotPositive(hit.player.health)
          THEN /\ rooms' = [rooms EXCEPT ![roomId].lastPlayedHand = lastPlayedHand,
                                         ![roomId].gameState = "ended"]
               /\ objs' = played
               /\ emitted' = <<Event("gameEnded", "room", roomId,
                                     lastPlayedHand.type, currentPlayer.id)>>
               /\ UNCHANGED crashed
          ELSE /\ rooms' = [rooms EXCEPT ![roomId] =
                                PassTurn([room EXCEPT !.lastPlayedHand = lastPlayedHand])]
               /\ objs' = TickAllRecycling(played, room.players, room.gameMode)
               /\ EmitPlayers(roomId, <<Event("handPlayed", "room", roomId,
                                               lastPlayedHand.type, room.currentPlayer)>>)
       /\ UNCHANGED <<players, timers, nextRoomId, disconnected>>

playHand(s, roomId, rnd) ==
    /\ Connected(s)
    /\ IF NotInPlay(s, roomId) THEN Drop
       ELSE IF ~IsTurnOf(s, roomId) THEN Drop
       ELSE LET room == rooms[roomId]
                currentPlayer == objs[RefOf(s, roomId)]
            IN IF ~currentPlayer.init THEN Crash       \* undefined.length
               ELSE IF Len(currentPlayer.selectedCards) = 0 THEN Drop
               ELSE LET validation == validateHand(SelectedObjects(currentPlayer))
                    IN IF ~validation.valid
                       THEN RejectHand(s, validation)
                       ELSE IF (1 - room.currentPlayer) + 1 \notin DOMAIN room.players
                       THEN Crash                      \* undefined.prediction / .health
                       ELSE PlayValid(s, roomId, rnd)

\* index.js:876-910
ArmorGained(type) ==
    CASE type = "High Card" -> 2
      [] type = "One Pair" -> 5
      [] type = "Two Pair" -> 8
      [] type = "Three of a Kind" -> 12
      [] type = "Straight" -> 15
      [] type = "Flush" -> 18
      [] type = "Full House" -> 22
      [] type = "Four of a Kind" -> 25
      [] type = "Straight Flush" -> 30
      [] type = "Royal Flush" -> 35
      [] OTHER -> 2

\* the armor grows without a cap
BuildFromUncapped(player, handResult, rnd) ==
    LET playedCards == SelectSeq(player.hand, IsSelected)
        pile == addToDiscardPile(player.discardPile, playedCards)
        ensured == ensureDeckHasCards(player.deck, pile, HandSize, rnd)
        drawn == SpliceHead(ensured.deck, HandSize)
    IN [player EXCEPT
           !.armor = JsPlus(player.armor, ArmorGained(handResult.type)),
           !.hand = CleanCards(drawn.taken),
           !.selectedCards = <<>>,
           !.deck = drawn.rest,
           !.discardPile = ensured.discardPile]

\* index.js:912-943: the actor after building armor
BuildFrom(player, handResult, rnd) ==
    LET playedCards == SelectSeq(player.hand, IsSelected)
        pile == addToDiscardPile(player.discardPile, playedCards)
        ensured == ensureDeckHasCards(player.deck, pile, HandSize, rnd)
        drawn == SpliceHead(ensured.deck, HandSize)
    IN [player EXCEPT
           !.armor = JsMin(MaxArmor, JsPlus(player.armor, ArmorGained(handResult.type))),
           !.hand = CleanCards(drawn.taken),
           !.selectedCards = <<>>,
           !.deck = drawn.rest,
           !.discardPile = ensured.discardPile]

\* index.js:949-956: buildArmor's cooldown tick (`p.discardsUsed;` resets nothing)
TickArmor(player) ==
    IF JsPositive(player.discardCooldown)
    THEN [player EXCEPT !.discardCooldown = player.discardCooldown - 1]
    ELSE player

TickAllArmor(heap, refs) ==
    [o \in DOMAIN heap |-> IF o \in Range(refs) THEN TickArmor(heap[o]) ELSE heap[o]]

\* index.js:872-978: a valid hand is turned into armor
BuildValid(s, roomId, rnd) ==
    LET room == rooms[roomId]
        ref == RefOf(s, roomId)
        currentPlayer == objs[ref]
        handResult == evaluateHand(SelectedObjects(currentPlayer))
        built == [objs EXCEPT ![ref] = BuildFrom(currentPlayer, handResult, rnd)]
    IN /\ objs' = TickAllArmor(built, room.players)
       /\ rooms' = [rooms EXCEPT ![roomId] = PassTurn(room)]
       /\ EmitPlayers(roomId, <<Event("armorBuilt", "room", roomId, handResult.type,
                                       room.currentPlayer)>>)
       /\ UNCHANGED <<players, timers, nextRoomId, disconnected>>

buildArmor(s, roomId, rnd) ==
    /\ Connected(s)
    /\ IF roomId \notin DOMAIN rooms \/ s \notin DOMAIN players THEN Drop
       ELSE IF rooms[roomId].gameMode # TACTICAL \/ rooms[roomId].gameState # "playing"
       THEN Drop
       ELSE IF ~IsTurnOf(s, roomId)
       THEN EmitOnly(<<Event("error", "sender", s,
                             "You can only build armor on your turn", 0)>>)
       ELSE LET currentPlayer == objs[RefOf(s, roomId)]
            IN IF ~currentPlayer.init THEN Crash       \* undefined.length
               ELSE IF Len(currentPlayer.selectedCards) = 0
               THEN EmitOnly(<<Event("error", "sender", s, "No cards selected", 0)>>)
               ELSE LET validation == validateHand(SelectedObjects(currentPlayer))
                    IN IF ~validation.valid
                       THEN RejectHand(s, validation)
                       ELSE BuildValid(s, roomId, rnd)

---------------------------------------------------------------------------
(* Rematch handlers *)

requestRematch(s, roomId) ==
    /\ Connected(s)
    /\ IF roomId \notin DOMAIN rooms \/ s \notin DOMAIN players THEN Drop
       ELSE EmitOnly(<<Event("rematchRequested", "others", roomId, "", s)>>)

declineRematch(s, roomId) ==
    /\ Connected(s)
    /\ IF roomId \notin DOMAIN rooms \/ s \notin DOMAIN players THEN Drop
       ELSE EmitOnly(<<Event("rematchDeclined", "others", roomId, "", s)>>)

\* acceptRematch's room.players.forEach body (index.js:1003-1020)
RematchPlayer(player, gameMode, rnd) ==
    LET dealt == SpliceHead(createDeck(rnd), HandSize)
        common == [player EXCEPT
                      !.init = TRUE,
                      !.health = StartingHealth(gameMode),
                      !.maxHealth = StartingHealth(gameMode),
                      !.deck = dealt.rest,
                      !.hand = dealt.taken,
                      !.selectedCards = <<>>,
                      !.discardsUsed = 0,
                      !.maxDiscards = MaxDiscardsInit,
                      !.maxCardsPerDiscard = MaxCardsPerDiscardInit,
                      !.discardCooldown = 0,
                      !.discardPile = <<>>]
    IN IF gameMode = TACTICAL
       THEN [common EXCEPT !.armor = 0, !.prediction = ""]
       ELSE common

acceptRematch(s, roomId, first, rnds) ==
    /\ Connected(s)
    /\ IF roomId \notin DOMAIN rooms \/ s \notin DOMAIN players THEN Drop
       ELSE LET room == rooms[roomId]
                refs == room.players
            IN /\ objs' = [o \in DOMAIN objs |->
                              IF \E i \in DOMAIN refs : refs[i] = o
                              THEN RematchPlayer(objs[o], room.gameMode,
                                       rnds[CHOOSE i \in DOMAIN refs : refs[i] = o])
                              ELSE objs[o]]
               /\ IF first + 1 \notin DOMAIN refs
                  \* room.players[room.currentPlayer].name throws at index.js:1025,
                  \* after the players, gameState and currentPlayer were set
                  THEN /\ rooms' = [rooms EXCEPT ![roomId].gameState = "playing",
                                                 ![roomId].currentPlayer = first]
                       /\ emitted' = <<>>
                       /\ crashed' = TRUE
                  ELSE /\ rooms' = [rooms EXCEPT ![roomId].gameState = "playing",
                                                 ![roomId].currentPlayer = first,
                                                 ![roomId].turn = 1,
                                                 ![roomId].lastPlayedHand = NoHand]
                       /\ emitted' = <<Event("rematchAccepted", "room", roomId,
                                             room.gameMode, first)>>
                       /\ crashed' = crashed
               /\ UNCHANGED <<players, timers, nextRoomId, disconnected>>

---------------------------------------------------------------------------
(* The environment: which connections exist and what the clients send *)

Sockets == {1, 2}
Creators == {1}
MaxRooms == 1
MaxTurn == 2
MaxPick == 6
MaxDiscardTurn == 1

RoomIds == 1..MaxRooms
DeckSources == {"mirror"}
PileSources == {"keep"}
Predictions == {"Royal Flush"}
NoCard == 0

\* the player object a socket acts on in a room, if it has one there
ActorRefs(s, roomId) ==
    IF roomId \in DOMAIN rooms
    THEN {rooms[roomId].players[i] : i \in {k \in DOMAIN rooms[roomId].players :
                                              objs[rooms[roomId].players[k]].id = s}}
    ELSE {}

\* A client picks cards from the front of its hand: it selects the first card
\* that is not selected yet or deselects the last selected one, up to MaxPick
\* cards; it may also name a card it does not hold.
PickIds(s, roomId) ==
    {NoCard} \cup
    UNION {LET hand == objs[ref].hand
               n == Len(objs[ref].selectedCards)
           IN {hand[k].id : k \in {n, n + 1} \cap (DOMAIN hand) \cap (1..MaxPick)}
           : ref \in ActorRefs(s, roomId)}

\* it marks only the first card of its hand
MarkIds(s, roomId) ==
    {NoCard} \cup
    UNION {LET hand == objs[ref].hand IN {hand[k].id : k \in {1} \cap DOMAIN hand}
           : ref \in ActorRefs(s, roomId)}

\* the match goes on for at most MaxTurn turns
TurnLeft(roomId) == roomId \in DOMAIN rooms => rooms[roomId].turn <= MaxTurn

\* the clients discard during the first MaxDiscardTurn turns only
DiscardTurn(roomId) == roomId \in DOMAIN rooms => rooms[roomId].turn <= MaxDiscardTurn

\* the clients send discardCards with nothing, one card or six cards selected
DiscardPicks == {0, 1, 6}
DiscardPick(s, roomId) ==
    \A ref \in ActorRefs(s, roomId) :
        objs[ref].init => Len(objs[ref].selectedCards) \in DiscardPicks

\* the clients offer the rematch buttons once a match is over
Over(roomId) == roomId \in DOMAIN rooms => rooms[roomId].gameState = "ended"

\* getRooms (index.js:412-423): the lobby lists a room while it has fewer than
\* two players, whatever its gameState
Listed(roomId) == roomId \in DOMAIN rooms => Len(rooms[roomId].players) < 2

\* the clients leave or drop between matches or right at the start of one,
\* before any card of the match has been touched
Untouched(ref) ==
    objs[ref].init =>
        /\ objs[ref].selectedCards = <<>>
        /\ objs[ref].discardsUsed = 0
        /\ \A k \in DOMAIN objs[ref].hand : ~objs[ref].hand[k].markedForDiscard
AtStart(roomId) ==
    rooms[roomId].gameState = "playing" =>
        /\ rooms[roomId].turn = 1
        /\ \A k \in DOMAIN rooms[roomId].players : Untouched(rooms[roomId].players[k])
\* the clients send joinRoom for any room between matches and, during a match,
\* for a room the lobby lists; the player who enters a running match is one who
\* has not played before (a returning player's entry is followed in SeatSpec)
Newcomer(s, roomId) ==
    (roomId \in DOMAIN rooms /\ s \in DOMAIN players) =>
        (rooms[roomId].gameState # "playing" \/ ~objs[players[s]].init)
Joinable(roomId) ==
    roomId \in DOMAIN rooms =>
        rooms[roomId].gameState # "playing" \/ Listed(roomId)
Idle == timers = <<>> /\ \A roomId \in DOMAIN rooms : AtStart(roomId)

\* no call of the hand evaluator on its own has been made
NotCalled == [called |-> FALSE]

Init ==
    /\ rooms = <<>>
    /\ players = <<>>
    /\ objs = <<>>
    /\ timers = <<>>
    /\ nextRoomId = 1
    /\ disconnected = {}
    /\ emitted = <<>>
    /\ crashed = FALSE
    /\ candidate = <<>>
    /\ validated = NotCalled
    /\ evaluated = NotCalled
    /\ previewed = NotCalled
    /\ singleMode = NotCalled
    /\ ensureArgs = NotCalled
    /\ replenished = NotCalled

SetPlayerName == \E s \in Sockets : s \notin DOMAIN players /\ setPlayerName(s)
        /\ UNCHANGED <<evaluator, replenisher>>
CreateRoom == \E s \in Creators, m \in GAME_MODES : nextRoomId <= MaxRooms /\ createRoom(s, m)
        /\ UNCHANGED <<evaluator, replenisher>>
JoinRoom == \E s \in Sockets, r \in RoomIds : Joinable(r) /\ Newcomer(s, r) /\ joinRoom(s, r)
        /\ UNCHANGED <<evaluator, replenisher>>
StartGame == \E first \in {0, 1}, a, b \in DeckSources : startGame(first, <<a, b>>)
        /\ UNCHANGED <<evaluator, replenisher>>
LeaveRoom == \E s \in Sockets : Idle /\ leaveRoom(s)
        /\ UNCHANGED <<evaluator, replenisher>>
Disconnect == \E s \in Sockets : Idle /\ disconnect(s)
        /\ UNCHANGED <<evaluator, replenisher>>
SelectCard ==
    \E s \in Sockets, r \in RoomIds : \E c \in PickIds(s, r) :
        TurnLeft(r) /\ selectCard(s, r, c)
        /\ UNCHANGED <<evaluator, replenisher>>
MarkForDiscard ==
    \E s \in Sockets, r \in RoomIds : \E c \in MarkIds(s, r) :
        TurnLeft(r) /\ markForDiscard(s, r, c)
        /\ UNCHANGED <<evaluator, replenisher>>
DiscardCards ==
    \E s \in Sockets, r \in RoomIds, rnd \in PileSources :
        DiscardTurn(r) /\ DiscardPick(s, r) /\ discardCards(s, r, rnd)
        /\ UNCHANGED <<evaluator, replenisher>>
MakePrediction ==
    \E s \in Sockets, r \in RoomIds, p \in Predictions : makePrediction(s, r, p)
        /\ UNCHANGED <<evaluator, replenisher>>
PlayHand ==
    \E s \in Sockets, r \in RoomIds, rnd \in PileSources : TurnLeft(r) /\ playHand(s, r, rnd)
        /\ UNCHANGED <<evaluator, replenisher>>
BuildArmor ==
    \E s \in Sockets, r \in RoomIds, rnd \in PileSources : TurnLeft(r) /\ buildArmor(s, r, rnd)
        /\ UNCHANGED <<evaluator, replenisher>>
RequestRematch == \E s \in Sockets, r \in RoomIds : Over(r) /\ requestRematch(s, r)
        /\ UNCHANGED <<evaluator, replenisher>>
DeclineRematch == \E s \in Sockets, r \in RoomIds : Over(r) /\ declineRematch(s, r)
        /\ UNCHANGED <<evaluator, replenisher>>
AcceptRematch ==
    \E s \in Sockets, r \in RoomIds, first \in {0, 1}, a, b \in DeckSources :
        timers = <<>> /\ acceptRematch(s, r, first, <<a, b>>)
        /\ UNCHANGED <<evaluator, replenisher>>

Next ==
    \/ SetPlayerName
    \/ CreateRoom
    \/ JoinRoom
    \/ StartGame
    \/ LeaveRoom
    \/ Disconnect
    \/ SelectCard
    \/ MarkForDiscard
    \/ DiscardCards
    \/ MakePrediction
    \/ PlayHand
    \/ BuildArmor
    \/ RequestRematch
    \/ DeclineRematch
    \/ AcceptRematch

Spec == Init /\ [][Next]_vars

---------------------------------------------------------------------------
(* A long match: two clients that play on, one card at a time *)

MaxLongTurn == 15
MaxRecyclingTurn == 7

LongModes == {TACTICAL, RECYCLING}

\* the socket is the room's player at currentPlayer, in a running match
OnTurn(s, roomId) ==
    /\ roomId \in DOMAIN rooms
    /\ rooms[roomId].gameState = "playing"
    /\ rooms[roomId].currentPlayer + 1 \in DOMAIN rooms[roomId].players
    /\ objs[rooms[roomId].players[rooms[roomId].currentPlayer + 1]].id = s

\* the long match of a Tactical room lasts MaxLongTurn turns, that of a
\* Recycling room MaxRecyclingTurn turns
LongTurnLeft(roomId) ==
    rooms[roomId].turn <= (IF rooms[roomId].gameMode = TACTICAL THEN MaxLongTurn
                           ELSE MaxRecyclingTurn)

\* the player on turn has nothing selected / has its one card selected
Unselected(roomId) ==
    objs[rooms[roomId].players[rooms[roomId].currentPlayer + 1]].selectedCards = <<>>
FirstCard(roomId) ==
    objs[rooms[roomId].players[rooms[roomId].currentPlayer + 1]].hand[1].id

\* the room list is what a client sees once it has a name and while it is in
\* no room; it creates and joins rooms from there
InLobby(s) == s \in DOMAIN players /\ objs[players[s]].roomId = NoRoom

LongCreateRoom ==
    \E s \in Creators, m \in LongModes :
        nextRoomId <= MaxRooms /\ InLobby(s) /\ createRoom(s, m)
        /\ UNCHANGED <<evaluator, replenisher>>
LongJoinRoom ==
    \E s \in Sockets, r \in RoomIds : InLobby(s) /\ Listed(r) /\ joinRoom(s, r)
        /\ UNCHANGED <<evaluator, replenisher>>
LongSelectCard ==
    \E s \in Sockets, r \in RoomIds :
        /\ OnTurn(s, r) /\ LongTurnLeft(r) /\ Unselected(r)
        /\ objs[rooms[r].players[rooms[r].currentPlayer + 1]].hand # <<>>
        /\ selectCard(s, r, FirstCard(r))
        /\ UNCHANGED <<evaluator, replenisher>>
LongDiscardCards ==
    \E s \in Sockets, r \in RoomIds, rnd \in PileSources :
        /\ OnTurn(s, r) /\ LongTurnLeft(r) /\ ~Unselected(r)
        /\ rooms[r].gameMode = RECYCLING
        /\ discardCards(s, r, rnd)
        /\ UNCHANGED <<evaluator, replenisher>>
LongPlayHand ==
    \E s \in Sockets, r \in RoomIds, rnd \in PileSources :
        /\ OnTurn(s, r) /\ LongTurnLeft(r) /\ ~Unselected(r)
        /\ playHand(s, r, rnd)
        /\ UNCHANGED <<evaluator, replenisher>>
LongBuildArmor ==
    \E s \in Sockets, r \in RoomIds, rnd \in PileSources :
        /\ OnTurn(s, r) /\ LongTurnLeft(r) /\ ~Unselected(r)
        /\ rooms[r].gameMode = TACTICAL
        /\ buildArmor(s, r, rnd)
        /\ UNCHANGED <<evaluator, replenisher>>

LongNext ==
    \/ SetPlayerName
    \/ LongCreateRoom
    \/ LongJoinRoom
    \/ StartGame
    \/ LongSelectCard
    \/ LongDiscardCards
    \/ LongPlayHand
    \/ LongBuildArmor

LongSpec == Init /\ [][LongNext]_vars

---------------------------------------------------------------------------
(* A short match over several deals: two clients that pick up to five cards
   from the front of the hand and build armor or play them *)

MaxArmorTurn == 3
ArmorPick == 5

ArmorSources == {"mirror", "pairs", "runs"}

\* the next card of the hand of the player on turn that is not selected yet
NextCard(roomId) ==
    LET player == objs[rooms[roomId].players[rooms[roomId].currentPlayer + 1]]
    IN player.hand[Len(player.selectedCards) + 1].id

MorePicks(roomId) ==
    LET player == objs[rooms[roomId].players[rooms[roomId].currentPlayer + 1]]
    IN /\ Len(player.selectedCards) < ArmorPick
       /\ Len(player.selectedCards) < Len(player.hand)

ArmorTurnLeft(roomId) == rooms[roomId].turn <= MaxArmorTurn

ArmorCreateRoom ==
    \E s \in Creators, m \in GAME_MODES :
        nextRoomId <= MaxRooms /\ InLobby(s) /\ createRoom(s, m)
        /\ UNCHANGED <<evaluator, replenisher>>
ArmorStartGame ==
    \E first \in {0, 1}, a \in ArmorSources : startGame(first, <<a, a>>)
        /\ UNCHANGED <<evaluator, replenisher>>
ArmorSelectCard ==
    \E s \in Sockets, r \in RoomIds :
        /\ OnTurn(s, r) /\ ArmorTurnLeft(r) /\ MorePicks(r)
        /\ selectCard(s, r, NextCard(r))
        /\ UNCHANGED <<evaluator, replenisher>>
ArmorPlayHand ==
    \E s \in Sockets, r \in RoomIds, rnd \in PileSources :
        /\ OnTurn(s, r) /\ ArmorTurnLeft(r) /\ ~Unselected(r)
        /\ playHand(s, r, rnd)
        /\ UNCHANGED <<evaluator, replenisher>>
ArmorBuildArmor ==
    \E s \in Sockets, r \in RoomIds, rnd \in PileSources :
        /\ OnTurn(s, r) /\ ArmorTurnLeft(r) /\ ~Unselected(r)
        /\ buildArmor(s, r, rnd)
        /\ UNCHANGED <<evaluator, replenisher>>

\* The player who waits predicts a Royal Flush, and may then change its mind
\* to a High Card.
ArmorPredictions == {"Royal Flush", "High Card"}
SecondThought(s, roomId, prediction) ==
    \A ref \in ActorRefs(s, roomId) :
        \/ objs[ref].prediction = "" /\ prediction = "Royal Flush"
        \/ objs[ref].prediction = "Royal Flush" /\ prediction = "High Card"
ArmorMakePrediction ==
    \E s \in Sockets, r \in RoomIds, p \in ArmorPredictions :
        /\ r \in DOMAIN rooms /\ rooms[r].gameState = "playing"
        /\ ArmorTurnLeft(r) /\ ~OnTurn(s, r) /\ ActorRefs(s, r) # {}
        /\ SecondThought(s, r, p)
        /\ makePrediction(s, r, p)
        /\ UNCHANGED <<evaluator, replenisher>>

ArmorNext ==
    \/ SetPlayerName
    \/ ArmorCreateRoom
    \/ LongJoinRoom
    \/ ArmorStartGame
    \/ ArmorSelectCard
    \/ ArmorMakePrediction
    \/ ArmorPlayHand
    \/ ArmorBuildArmor

ArmorSpec == Init /\ [][ArmorNext]_vars

---------------------------------------------------------------------------
(* A Classic match played down to the last card of the deck: two clients that
   first throw away the fifteen high cards they are dealt and then play the
   low cards in the order they come *)

MaxClassicTurn == 60
MaxPairTurn == 2

ClassicPileSources == {"keep", "front"}

\* how many cards the player on turn picks: a full discard while it has
\* discards left, then one card, or on its first turn possibly a pair
Wanted(roomId) ==
    LET player == objs[rooms[roomId].players[rooms[roomId].currentPlayer + 1]]
    IN IF player.discardsUsed < player.maxDiscards THEN player.maxCardsPerDiscard
       ELSE IF rooms[roomId].turn <= MaxPairTurn THEN 2
       ELSE 1

DiscardsLeft(roomId) ==
    LET player == objs[rooms[roomId].players[rooms[roomId].currentPlayer + 1]]
    IN player.discardsUsed < player.maxDiscards

ClassicTurnLeft(roomId) == rooms[roomId].turn <= MaxClassicTurn

ClassicCreateRoom ==
    \E s \in Creators :
        nextRoomId <= MaxRooms /\ InLobby(s) /\ createRoom(s, CLASSIC)
        /\ UNCHANGED <<evaluator, replenisher>>
ClassicStartGame ==
    \E first \in {0, 1} : startGame(first, <<"drain", "drain">>)
        /\ UNCHANGED <<evaluator, replenisher>>
ClassicSelectCard ==
    \E s \in Sockets, r \in RoomIds :
        /\ OnTurn(s, r) /\ ClassicTurnLeft(r)
        /\ Len(objs[rooms[r].players[rooms[r].currentPlayer + 1]].selectedCards)
               < Wanted(r)
        /\ selectCard(s, r, NextCard(r))
        /\ UNCHANGED <<evaluator, replenisher>>
ClassicDiscardCards ==
    \E s \in Sockets, r \in RoomIds, rnd \in ClassicPileSources :
        /\ OnTurn(s, r) /\ ClassicTurnLeft(r) /\ DiscardsLeft(r)
        /\ Len(objs[rooms[r].players[rooms[r].currentPlayer + 1]].selectedCards)
               = Wanted(r)
        /\ discardCards(s, r, rnd)
        /\ UNCHANGED <<evaluator, replenisher>>
ClassicPlayHand ==
    \E s \in Sockets, r \in RoomIds, rnd \in ClassicPileSources :
        /\ OnTurn(s, r) /\ ClassicTurnLeft(r) /\ ~DiscardsLeft(r)
        /\ ~Unselected(r)
        /\ playHand(s, r, rnd)
        /\ UNCHANGED <<evaluator, replenisher>>

ClassicNext ==
    \/ SetPlayerName
    \/ ClassicCreateRoom
    \/ LongJoinRoom
    \/ ClassicStartGame
    \/ ClassicSelectCard
    \/ ClassicDiscardCards
    \/ ClassicPlayHand

ClassicSpec == Init /\ [][ClassicNext]_vars

---------------------------------------------------------------------------
(* The hand evaluator on its own: every selection of up to MaxCards cards of
   one deck, up to the choice of suits, handed to validateHand, to
   evaluateHand and to the client's preview *)

MaxCards == 6
\* the longest selection validateHand lets through (case 5)
MaxPlayed == 5

\* the server is left as it is after construction
server == <<rooms, players, objs, timers, nextRoomId, disconnected, emitted, crashed>>

\* the sequences of n ranks from lo upwards, in ascending order
RECURSIVE RankRuns(_, _)
RankRuns(n, lo) ==
    IF n = 0 THEN {<<>>}
    ELSE UNION {{<<r>> \o t : t \in RankRuns(n - 1, r)} : r \in lo..MaxRank}

\* a deck has Len(Suits) cards of a rank
InOneDeck(ranks) == \A r \in 1..MaxRank : RankCount(ranks, r) <= Len(Suits)
AllDistinct(ranks) == \A r \in 1..MaxRank : RankCount(ranks, r) <= 1

\* cards of these ranks: all of hearts, or of the four suits in turn
OfOneSuit(ranks) == [i \in DOMAIN ranks |-> NewCard(ranks[i])]
OfMixedSuits(ranks) ==
    [i \in DOMAIN ranks |-> NewCard(((i - 1) % Len(Suits)) * MaxRank + ranks[i])]

Reversed(seq) == [i \in DOMAIN seq |-> seq[Len(seq) + 1 - i]]

\* selections of up to five cards in mixed suits and in one suit, in ascending
\* and in descending order; longer ones in mixed suits, ascending
CandidateHands(maxCards) ==
    LET runs == UNION {{ranks \in RankRuns(n, 1) : InOneDeck(ranks)} : n \in 0..MaxPlayed}
        long == UNION {{ranks \in RankRuns(n, 1) : InOneDeck(ranks)}
                          : n \in (MaxPlayed + 1)..maxCards}
        sorted == {OfMixedSuits(ranks) : ranks \in runs}
                      \cup {OfOneSuit(ranks) : ranks \in {x \in runs : AllDistinct(x)}}
    IN sorted \cup {Reversed(h) : h \in sorted} \cup {OfMixedSuits(ranks) : ranks \in long}

HandInit ==
    /\ rooms = <<>>
    /\ players = <<>>
    /\ objs = <<>>
    /\ timers = <<>>
    /\ nextRoomId = 1
    /\ disconnected = {}
    /\ emitted = <<>>
    /\ crashed = FALSE
    /\ candidate \in CandidateHands(MaxCards)
    /\ validated = NotCalled
    /\ evaluated = NotCalled
    /\ previewed = NotCalled
    /\ singleMode = NotCalled
    /\ ensureArgs = NotCalled
    /\ replenished = NotCalled

ValidateHand ==
    /\ validated = NotCalled
    /\ validated' = validateHand(candidate)
    /\ UNCHANGED <<server, candidate, evaluated, previewed, singleMode, replenisher>>
EvaluateHand ==
    /\ validated # NotCalled
    /\ evaluated = NotCalled
    /\ evaluated' = evaluateHand(candidate)
    /\ UNCHANGED <<server, candidate, validated, previewed, singleMode, replenisher>>
PreviewHand ==
    /\ evaluated # NotCalled
    /\ previewed = NotCalled
    /\ previewed' = [validation |-> validateHandPreview(candidate),
                     damage |-> calculateDamagePreview(candidate)]
    /\ UNCHANGED <<server, candidate, validated, evaluated, singleMode, replenisher>>

EvaluateSingle ==
    /\ previewed # NotCalled
    /\ singleMode = NotCalled
    /\ singleMode' = [validation |-> validateHandSingle(candidate),
                      result |-> evaluateHandSingle(candidate)]
    /\ UNCHANGED <<server, candidate, validated, evaluated, previewed, replenisher>>

HandNext ==
    \/ ValidateHand
    \/ EvaluateHand
    \/ PreviewHand
    \/ EvaluateSingle

HandSpec == HandInit /\ [][HandNext]_vars

---------------------------------------------------------------------------
(* The lobby on its own: three connections that register, open rooms, join
   any room by its number (listed or not, full or not), leave and disconnect
   in any order, whatever room they are in; no card is played *)

Visitors == {1, 2, 3}
MaxLobbyRooms == 2
\* the deferred game starts that may be pending at once
MaxPending == 1
LobbyRoomIds == 1..MaxLobbyRooms

LobbySetPlayerName ==
    /\ \E s \in Visitors : s \notin DOMAIN players /\ setPlayerName(s)
    /\ UNCHANGED <<evaluator, replenisher>>
LobbyCreateRoom ==
    /\ \E s \in Visitors : nextRoomId <= MaxLobbyRooms /\ createRoom(s, CLASSIC)
    /\ UNCHANGED <<evaluator, replenisher>>
LobbyJoinRoom ==
    /\ \E s \in Visitors, r \in LobbyRoomIds : Len(timers) < MaxPending /\ joinRoom(s, r)
    /\ UNCHANGED <<evaluator, replenisher>>
LobbyStartGame ==
    /\ \E first \in {0, 1} : startGame(first, <<"mirror", "mirror">>)
    /\ UNCHANGED <<evaluator, replenisher>>
LobbyLeaveRoom ==
    /\ \E s \in Visitors : leaveRoom(s)
    /\ UNCHANGED <<evaluator, replenisher>>
LobbyDisconnect ==
    /\ \E s \in Visitors : disconnect(s)
    /\ UNCHANGED <<evaluator, replenisher>>

LobbyNext ==
    \/ LobbySetPlayerName
    \/ LobbyCreateRoom
    \/ LobbyJoinRoom
    \/ LobbyStartGame
    \/ LobbyLeaveRoom
    \/ LobbyDisconnect

LobbySpec == Init /\ [][LobbyNext]_vars

---------------------------------------------------------------------------
(* ensureDeckHasCards on its own and inside a match: a run either hands the
   function a deck of up to MaxDeckCards cards, a discard pile of up to
   MaxPileCards cards and a number of cards needed, or plays the Classic match
   down to the last card of the deck *)

MaxDeckCards == 3
MaxPileCards == 3
EnsureSources == {"keep", "front"}

\* n cards of a deck, from the lo-th on
CardsFrom(lo, n) == [i \in 1..n |-> NewCard(lo + i - 1)]

EnsureCalls ==
    {[called |-> TRUE, deck |-> CardsFrom(1, d), discardPile |-> CardsFrom(d + 1, p),
      cardsNeeded |-> n, rnd |-> r]
        : d \in 0..MaxDeckCards, p \in 0..MaxPileCards,
          n \in 0..(MaxDeckCards + MaxPileCards + 1), r \in EnsureSources}

DeckInit ==
    /\ rooms = <<>>
    /\ players = <<>>
    /\ objs = <<>>
    /\ timers = <<>>
    /\ nextRoomId = 1
    /\ disconnected = {}
    /\ emitted = <<>>
    /\ crashed = FALSE
    /\ candidate = <<>>
    /\ validated = NotCalled
    /\ evaluated = NotCalled
    /\ previewed = NotCalled
    /\ singleMode = NotCalled
    /\ ensureArgs \in EnsureCalls \cup {NotCalled}
    /\ replenished = NotCalled

EnsureDeck ==
    /\ ensureArgs # NotCalled
    /\ replenished = NotCalled
    /\ LET after == ensureDeckHasCards(ensureArgs.deck, ensureArgs.discardPile,
                                       ensureArgs.cardsNeeded, ensureArgs.rnd)
       IN replenished' = [called |-> TRUE, deck |-> after.deck,
                          discardPile |-> after.discardPile, ok |-> after.ok]
    /\ UNCHANGED <<server, evaluator, ensureArgs>>

DeckMatch ==
    /\ ensureArgs = NotCalled
    /\ ClassicNext

DeckNext ==
    \/ EnsureDeck
    \/ DeckMatch

DeckSpec == DeckInit /\ [][DeckNext]_vars

---------------------------------------------------------------------------
(* The Classic match played past the last card of the deck by clients that
   also mark the first card of the hand for discard before they pick it *)

TripMarkForDiscard ==
    \E s \in Sockets, r \in RoomIds :
        /\ OnTurn(s, r) /\ ClassicTurnLeft(r) /\ Unselected(r)
        /\ objs[rooms[r].players[rooms[r].currentPlayer + 1]].hand # <<>>
        /\ ~objs[rooms[r].players[rooms[r].currentPlayer + 1]].hand[1].markedForDiscard
        /\ markForDiscard(s, r, FirstCard(r))
        /\ UNCHANGED <<evaluator, replenisher>>

TripNext ==
    \/ ClassicNext
    \/ TripMarkForDiscard

TripSpec == Init /\ [][TripNext]_vars

---------------------------------------------------------------------------
(* The lobby with clients that leave or disconnect only from a room they are
   in: every handler but the deferred start emits something, so a step that
   emits nothing is a start that was skipped *)

\* the socket's session names a room of the registry
InRoom(s) ==
    /\ s \in DOMAIN players
    /\ objs[players[s]].roomId # NoRoom
    /\ objs[players[s]].roomId \in DOMAIN rooms

StartLeaveRoom ==
    /\ \E s \in Visitors : InRoom(s) /\ leaveRoom(s)
    /\ UNCHANGED <<evaluator, replenisher>>
StartDisconnect ==
    /\ \E s \in Visitors : InRoom(s) /\ disconnect(s)
    /\ UNCHANGED <<evaluator, replenisher>>

StartNext ==
    \/ LobbySetPlayerName
    \/ LobbyCreateRoom
    \/ LobbyJoinRoom
    \/ LobbyStartGame
    \/ StartLeaveRoom
    \/ StartDisconnect

StartSpec == Init /\ [][StartNext]_vars

---------------------------------------------------------------------------
(* Properties *)

CardIds == NoCard..(MaxRank * Len(Suits))

\* the player object at index i (from 0) of the room
PlayerAt(roomId, i) == objs[rooms[roomId].players[i + 1]]

Seated(s, roomId) ==
    /\ roomId \in DOMAIN rooms
    /\ \E k \in DOMAIN rooms[roomId].players : objs[rooms[roomId].players[k]].id = s

\* the room is playing and the player at currentPlayerIndex is the socket's
Active(s, roomId) ==
    /\ roomId \in DOMAIN rooms
    /\ s \in DOMAIN players
    /\ rooms[roomId].gameState = "playing"
    /\ rooms[roomId].currentPlayer + 1 \in DOMAIN rooms[roomId].players
    /\ PlayerAt(roomId, rooms[roomId].currentPlayer).id = s

\* the cards a player object accounts for
CardsOf(player) == Len(player.hand) + Len(player.deck) + Len(player.discardPile)

\* one of the five turn-bound requests, sent by socket s for the room
TurnAction(s, roomId) ==
    \/ \E c \in CardIds : selectCard(s, roomId, c)
    \/ \E c \in CardIds : markForDiscard(s, roomId, c)
    \/ \E rnd \in PileSources : discardCards(s, roomId, rnd)
    \/ \E rnd \in PileSources : playHand(s, roomId, rnd)
    \/ \E rnd \in PileSources : buildArmor(s, roomId, rnd)

\* C1: every player of a room whose match has started holds 52 cards in
\* hand, deck and discard pile together, in every reachable state.
CardConservation ==
    \A roomId \in DOMAIN rooms : \A k \in DOMAIN rooms[roomId].players :
        LET player == objs[rooms[roomId].players[k]]
        IN player.init => CardsOf(player) = MaxRank * Len(Suits)

\* C1: armor has just been built and its builder, who had played one card,
\* is left with fewer than 52 cards.
CardsLost ==
    \E roomId \in DOMAIN rooms :
        /\ rooms[roomId].gameState = "playing"
        /\ Len(rooms[roomId].players) = 2
        /\ emitted = <<Event("armorBuilt", "room", roomId, "High Card",
                             1 - rooms[roomId].currentPlayer)>>
        /\ LET builder == PlayerAt(roomId, 1 - rooms[roomId].currentPlayer)
           IN /\ Len(builder.hand) = HandSize
              /\ Len(builder.discardPile) = 1
              /\ CardsOf(builder) < MaxRank * Len(Suits)

\* C2: selectCard, markForDiscard, discardCards, playHand and buildArmor sent
\* by a socket that is not the player at currentPlayerIndex of a playing room
\* (the other player, or anyone while the room is waiting or ended) leave the
\* room and every player object as they were. (Stated from the effect: a step
\* that changes a room or a player is no such request of such a socket.)
TurnEnforcement ==
    [][\A s \in Sockets, roomId \in RoomIds :
          (roomId \in DOMAIN rooms /\ ~Active(s, roomId) /\ <<rooms, objs>>' # <<rooms, objs>>)
              => ~TurnAction(s, roomId)]_vars

\* C2: the player whose turn it is not has asked to build armor; the refusal
\* is all there is to see, and the active player's selection stands.
RefusedOutOfTurn ==
    \E roomId \in DOMAIN rooms, s \in Sockets :
        /\ rooms[roomId].gameState = "playing"
        /\ Len(rooms[roomId].players) = 2
        /\ Seated(s, roomId)
        /\ ~Active(s, roomId)
        /\ emitted = <<Event("error", "sender", s,
                             "You can only build armor on your turn", 0)>>
        /\ Len(PlayerAt(roomId, rooms[roomId].currentPlayer).selectedCards) = 2
        /\ PlayerAt(roomId, 1 - rooms[roomId].currentPlayer).selectedCards = <<>>

\* C3: a game request that violates a precondition emits nothing: a turn-bound
\* request from a socket that is not the active player of a playing room, a
\* makePrediction while the room is not playing or by the active player, and
\* a selectCard or markForDiscard naming a card that is not in the hand.
SilentDrop ==
    [][\A s \in Sockets, roomId \in RoomIds :
          /\ (roomId \in DOMAIN rooms /\ ~Active(s, roomId) /\ TurnAction(s, roomId))
                 => emitted' = <<>>
          /\ (/\ roomId \in DOMAIN rooms
              /\ rooms[roomId].gameState # "playing" \/ Active(s, roomId)
              /\ \E p \in Predictions : makePrediction(s, roomId, p))
                 => emitted' = <<>>
          /\ \A c \in CardIds :
                (/\ Active(s, roomId)
                 /\ PlayerAt(roomId, rooms[roomId].currentPlayer).init
                 /\ ~HasCard(PlayerAt(roomId, rooms[roomId].currentPlayer).hand, c)
                 /\ selectCard(s, roomId, c) \/ markForDiscard(s, roomId, c))
                    => emitted' = <<>>]_vars

\* C3: the active player of a playing Tactical room has sent makePrediction
\* and has been answered with an error event.
PredictionRefused ==
    \E roomId \in DOMAIN rooms, s \in Sockets :
        /\ Active(s, roomId)
        /\ Len(rooms[roomId].players) = 2
        /\ emitted = <<Event("error", "sender", s, "You cannot predict your own hand", 0)>>

\* the active player of the room holds a non-empty selection validateHand refuses
InvalidSelection(s, roomId) ==
    /\ Active(s, roomId)
    /\ LET player == PlayerAt(roomId, rooms[roomId].currentPlayer)
       IN /\ player.init
          /\ player.selectedCards # <<>>
          /\ ~validateHand(SelectedObjects(player)).valid

\* C4: playHand, and in a Tactical room buildArmor, by the active player with
\* a non-empty selection that validateHand refuses emits invalidHand with the
\* validator's error to the sender and leaves the room and every player
\* object as they were: no turn is consumed.
InvalidHandRejected ==
    [][\A s \in Sockets, roomId \in RoomIds, rnd \in PileSources :
          (/\ InvalidSelection(s, roomId)
           /\ \/ playHand(s, roomId, rnd)
              \/ rooms[roomId].gameMode = TACTICAL /\ buildArmor(s, roomId, rnd))
              => /\ UNCHANGED <<rooms, objs>>
                 /\ emitted' = <<Event("invalidHand", "sender", s,
                        validateHand(SelectedObjects(
                            PlayerAt(roomId, rooms[roomId].currentPlayer))).error,
                        0)>>]_vars

\* C4: the active player of a Tactical room has sent two cards that are no
\* pair and has been told so; it is still the first turn.
InvalidHandTold ==
    \E roomId \in DOMAIN rooms, s \in Sockets :
        /\ InvalidSelection(s, roomId)
        /\ rooms[roomId].gameMode = TACTICAL
        /\ Len(rooms[roomId].players) = 2
        /\ rooms[roomId].turn = 1
        /\ Len(PlayerAt(roomId, rooms[roomId].currentPlayer).selectedCards) = 2
        /\ emitted = <<Event("invalidHand", "sender", s,
                             "Two cards must be a pair (same rank)", 0)>>

\* a playHand of the active player against an opponent that went through:
\* it changed the players and the room
PlayedBy(s, roomId) ==
    /\ Active(s, roomId)
    /\ Len(rooms[roomId].players) = 2
    /\ objs' # objs
    /\ rooms' # rooms
    /\ \E rnd \in PileSources : playHand(s, roomId, rnd)

\* the opponent of the player whose turn it is, after the step
OpponentAfter(roomId) == objs'[rooms[roomId].players[(1 - rooms[roomId].currentPlayer) + 1]]

\* C5: a playHand that goes through and leaves the opponent with health 0
\* ends the match in that step: gameState becomes ended, gameEnded names the
\* acting player as the winner, and currentPlayerIndex and turnCounter keep
\* their values.
GameEnd ==
    [][\A s \in Sockets, roomId \in RoomIds :
          (PlayedBy(s, roomId) /\ OpponentAfter(roomId).health = 0)
              => /\ rooms'[roomId].gameState = "ended"
                 /\ rooms'[roomId].currentPlayer = rooms[roomId].currentPlayer
                 /\ rooms'[roomId].turn = rooms[roomId].turn
                 /\ emitted' = <<Event("gameEnded", "room", roomId,
                                       rooms'[roomId].lastPlayedHand.type, s)>>]_vars

\* C5: a Royal Flush has brought the opponent to 0 on the first turn; the
\* room is ended, the winner is the player whose turn it still is.
EndedByPlay ==
    \E roomId \in DOMAIN rooms :
        /\ rooms[roomId].gameState = "ended"
        /\ Len(rooms[roomId].players) = 2
        /\ rooms[roomId].turn = 1
        /\ PlayerAt(roomId, 1 - rooms[roomId].currentPlayer).health = 0
        /\ emitted = <<Event("gameEnded", "room", roomId, "Royal Flush",
                             PlayerAt(roomId, rooms[roomId].currentPlayer).id)>>

\* the turn has passed to the other player and has been counted
Passed(roomId) ==
    /\ rooms'[roomId].currentPlayer = 1 - rooms[roomId].currentPlayer
    /\ rooms'[roomId].turn = rooms[roomId].turn + 1

\* the room is still there, with the same player to move and the same count
TurnKept(roomId) ==
    /\ roomId \in DOMAIN rooms'
    /\ rooms'[roomId].currentPlayer = rooms[roomId].currentPlayer
    /\ rooms'[roomId].turn = rooms[roomId].turn

\* a request that is not a move of the match
NoMove(s, roomId) ==
    \/ \E c \in CardIds : selectCard(s, roomId, c)
    \/ \E c \in CardIds : markForDiscard(s, roomId, c)
    \/ \E rnd \in PileSources : discardCards(s, roomId, rnd)
    \/ \E p \in Predictions : makePrediction(s, roomId, p)
    \/ requestRematch(s, roomId)
    \/ declineRematch(s, roomId)

\* C6: a playHand that goes through and leaves the opponent's health above 0,
\* and a buildArmor that goes through, hand the turn to the other player and
\* add one to turnCounter; selectCard, markForDiscard, discardCards,
\* makePrediction, requestRematch and declineRematch change neither (a step
\* that changes either is none of these requests).
TurnAlternation ==
    [][\A s \in Sockets, roomId \in RoomIds :
          /\ (PlayedBy(s, roomId) /\ JsPositive(OpponentAfter(roomId).health))
                 => Passed(roomId)
          /\ (/\ Active(s, roomId)
              /\ objs' # objs
              /\ rooms' # rooms
              /\ \E rnd \in PileSources : buildArmor(s, roomId, rnd))
                 => Passed(roomId)
          /\ (roomId \in DOMAIN rooms /\ ~TurnKept(roomId)) => ~NoMove(s, roomId)]_vars

\* C6: the first hand has been played, the opponent lives, and it is now the
\* second turn, the opponent's.
TurnPassed ==
    \E roomId \in DOMAIN rooms :
        /\ rooms[roomId].gameState = "playing"
        /\ Len(rooms[roomId].players) = 2
        /\ rooms[roomId].turn = 2
        /\ JsPositive(PlayerAt(roomId, rooms[roomId].currentPlayer).health)
        /\ emitted = <<Event("handPlayed", "room", roomId, "Royal Flush",
                             1 - rooms[roomId].currentPlayer)>>

\* C7: gameState changes only from waiting to playing with two players, from
\* playing to ended and from ended to playing; acceptRematch changes the room
\* and the players only when the room is ended; requestRematch and
\* declineRematch change neither the room nor any player.
MatchStateMachine ==
    [][\A roomId \in RoomIds :
          /\ (/\ roomId \in DOMAIN rooms
              /\ roomId \in DOMAIN rooms'
              /\ rooms'[roomId].gameState # rooms[roomId].gameState)
                 => \/ /\ rooms[roomId].gameState = "waiting"
                       /\ rooms'[roomId].gameState = "playing"
                       /\ Len(rooms'[roomId].players) = 2
                    \/ /\ rooms[roomId].gameState = "playing"
                       /\ rooms'[roomId].gameState = "ended"
                    \/ /\ rooms[roomId].gameState = "ended"
                       /\ rooms'[roomId].gameState = "playing"
          /\ \A s \in Sockets, first \in {0, 1}, a, b \in DeckSources :
                (/\ roomId \in DOMAIN rooms
                 /\ rooms[roomId].gameState # "ended"
                 /\ acceptRematch(s, roomId, first, <<a, b>>))
                    => UNCHANGED <<rooms, objs>>
          /\ \A s \in Sockets :
                (requestRematch(s, roomId) \/ declineRematch(s, roomId))
                    => UNCHANGED <<rooms, objs>>]_vars

\* C7: a rematch has been accepted in a room that never had a match: its
\* creator is the only player there is, and the room is playing.
RematchWhileWaiting ==
    \E roomId \in DOMAIN rooms :
        /\ Len(rooms[roomId].players) = 1
        /\ rooms[roomId].gameState = "playing"
        /\ \A s \in Sockets \ {PlayerAt(roomId, 0).id} :
               s \notin DOMAIN players /\ s \notin disconnected
        /\ emitted = <<Event("rematchAccepted", "room", roomId,
                             rooms[roomId].gameMode, rooms[roomId].currentPlayer)>>

\* C8: a room whose gameState is playing has exactly two players.
PlayingHasTwoPlayers ==
    \A roomId \in DOMAIN rooms :
        rooms[roomId].gameState = "playing" => Len(rooms[roomId].players) = 2

\* C8: a player has left a match in progress; the room goes on playing with
\* the one who stayed.
PlayingAlone ==
    \E roomId \in DOMAIN rooms, s \in Sockets :
        /\ rooms[roomId].gameState = "playing"
        /\ Len(rooms[roomId].players) = 1
        /\ PlayerAt(roomId, 0).init
        /\ emitted = <<Event("playerLeft", "room", roomId, "", s),
                       Event("roomsUpdated", "all", 0, "", 0)>>

\* the room's match has just been started or restarted
Started(roomId) ==
    \E k \in DOMAIN emitted :
        /\ emitted[k].name \in {"gameStarted", "rematchAccepted"}
        /\ emitted[k].kind = "room"
        /\ emitted[k].id = roomId

\* a player as a match of the mode starts with
FreshPlayer(player, gameMode) ==
    /\ player.init
    /\ player.health = (IF gameMode = CLASSIC THEN 200 ELSE 300)
    /\ player.maxHealth = player.health
    /\ Len(player.hand) = 8
    /\ Len(player.deck) = 44
    /\ player.discardPile = <<>>
    /\ player.selectedCards = <<>>
    /\ \A k \in DOMAIN player.hand : ~player.hand[k].selected
    /\ player.discardsUsed = 0
    /\ player.discardCooldown = 0
    /\ gameMode = TACTICAL => player.armor = 0 /\ player.prediction = ""

\* C9: right after startGame has started a match, and right after
\* acceptRematch, the room is playing, turnCounter is 1, currentPlayerIndex is
\* 0 or 1 and every player of the room has health = maxHealth = the mode's
\* starting health, 8 cards in hand, 44 in the deck, an empty discard pile,
\* nothing selected, discardsUsed = discardCooldown = 0 and, in Tactical,
\* armor 0 and no prediction; startGame starts a match of two players.
MatchInitialised ==
    \A roomId \in DOMAIN rooms :
        Started(roomId) =>
            /\ rooms[roomId].gameState = "playing"
            /\ rooms[roomId].turn = 1
            /\ rooms[roomId].currentPlayer \in {0, 1}
            /\ emitted[1].name = "gameStarted" => Len(rooms[roomId].players) = 2
            /\ \A k \in DOMAIN rooms[roomId].players :
                   FreshPlayer(objs[rooms[roomId].players[k]], rooms[roomId].gameMode)

\* C9: a Tactical match of two has just been started by startGame, and the
\* second player begins.
StartedSecondFirst ==
    \E roomId \in DOMAIN rooms :
        /\ Started(roomId)
        /\ emitted[1].name = "gameStarted"
        /\ rooms[roomId].gameMode = TACTICAL
        /\ Len(rooms[roomId].players) = 2
        /\ rooms[roomId].currentPlayer = 1

\* the active player's discard is one the server refuses
RefusedDiscard(s, roomId) ==
    /\ Active(s, roomId)
    /\ LET player == PlayerAt(roomId, rooms[roomId].currentPlayer)
       IN /\ player.init
          /\ \/ Len(player.selectedCards) = 0
             \/ Len(player.selectedCards) > 5
             \/ player.discardsUsed >= 3
             \/ rooms[roomId].gameMode = RECYCLING /\ player.discardCooldown > 0

\* C10: discardCards by the active player with no card selected, with more
\* than 5 cards selected, with discardsUsed >= 3 or, in Recycling, with
\* discardCooldown > 0 leaves the room and every player object as they were;
\* and every player that has been dealt in has 0 <= discardsUsed <= maxDiscards.
DiscardRejection ==
    /\ [](\A o \in DOMAIN objs :
             objs[o].init => /\ 0 <= objs[o].discardsUsed
                             /\ objs[o].discardsUsed <= objs[o].maxDiscards
                             /\ objs[o].maxDiscards = 3)
    /\ [][\A s \in Sockets, roomId \in RoomIds, rnd \in PileSources :
             (RefusedDiscard(s, roomId) /\ discardCards(s, roomId, rnd))
                 => UNCHANGED <<rooms, objs>>]_vars

\* C10: the active player has used its three discards, has selected a card
\* and has asked for a fourth discard, which was dropped: the card is still
\* selected and nothing was emitted.
FourthDiscardDropped ==
    \E roomId \in DOMAIN rooms, s \in Sockets :
        /\ Active(s, roomId)
        /\ Len(rooms[roomId].players) = 2
        /\ LET player == PlayerAt(roomId, rooms[roomId].currentPlayer)
           IN /\ player.init
              /\ player.discardsUsed = 3
              /\ Len(player.discardPile) = 3
              /\ Len(player.selectedCards) = 1
        /\ emitted = <<>>

\* the ids of the cards of a hand, deck or pile
Ids(cards) == {cards[k].id : k \in DOMAIN cards}

\* the reference of the player whose turn it is, and of the other one
ActorRef(roomId) == rooms[roomId].players[rooms[roomId].currentPlayer + 1]
OtherRef(roomId) == rooms[roomId].players[(1 - rooms[roomId].currentPlayer) + 1]

\* a discardCards of the active player that went through: it answered with
\* gameStateUpdate or, the other player never dealt, failed on that answer
Discarded(s, roomId) ==
    /\ Active(s, roomId)
    /\ Len(rooms[roomId].players) = 2
    /\ \/ emitted' = <<Event("gameStateUpdate", "room", roomId, "",
                             rooms[roomId].currentPlayer)>>
       \/ crashed' /\ objs' # objs
    /\ \E rnd \in PileSources : discardCards(s, roomId, rnd)

\* C11: a discardCards that goes through takes exactly the selected cards out
\* of the actor's hand and puts them on the actor's discard pile, draws as
\* many cards from the head of the actor's deck, so that the hand keeps its
\* size, adds one to the actor's discardsUsed and leaves the room
\* (currentPlayerIndex, turnCounter, gameState), both players' health and
\* the opponent's cards as they were.
DiscardEffect ==
    [][\A s \in Sockets, roomId \in RoomIds :
          Discarded(s, roomId) =>
              LET before == objs[ActorRef(roomId)]
                  after == objs'[ActorRef(roomId)]
                  flagged == {before.selectedCards[k] : k \in DOMAIN before.selectedCards}
                  n == Len(before.selectedCards)
              IN /\ Ids(before.hand) \ Ids(after.hand) = flagged
                 /\ Len(after.hand) = Len(before.hand)
                 /\ flagged \subseteq Ids(after.discardPile)
                 /\ Len(before.deck) >= n =>
                        /\ Ids(after.hand) \ Ids(before.hand)
                               = Ids(SubSeq(before.deck, 1, n))
                        /\ after.deck = SubSeq(before.deck, n + 1, Len(before.deck))
                        /\ Ids(after.discardPile) = Ids(before.discardPile) \cup flagged
                        /\ Len(after.discardPile) = Len(before.discardPile) + n
                 /\ after.discardsUsed = before.discardsUsed + 1
                 /\ after.health = before.health
                 /\ rooms' = rooms
                 /\ objs'[OtherRef(roomId)] = objs[OtherRef(roomId)]]_vars

\* C11: the active player has discarded the first card of its hand on the
\* first turn: the ace of hearts lies on the discard pile, the nine cards that
\* followed it are the hand and the head of the deck, and it is still that
\* player's first turn.
DiscardedOne ==
    \E roomId \in DOMAIN rooms :
        /\ rooms[roomId].gameState = "playing"
        /\ Len(rooms[roomId].players) = 2
        /\ rooms[roomId].turn = 1
        /\ emitted = <<Event("gameStateUpdate", "room", roomId, "",
                             rooms[roomId].currentPlayer)>>
        /\ LET player == PlayerAt(roomId, rooms[roomId].currentPlayer)
           IN /\ player.discardsUsed = 1
              /\ Ids(player.discardPile) = {1}
              /\ Len(player.hand) = HandSize
              /\ Len(player.deck) = 43
              /\ player.selectedCards = <<>>

\* C13: the discard cooldown is a Recycling-only mechanic: every player of a
\* Classic or Tactical room that has been dealt in has discardCooldown = 0,
\* in every reachable state.
CooldownRecyclingOnly ==
    \A roomId \in DOMAIN rooms :
        rooms[roomId].gameMode # RECYCLING =>
            \A k \in DOMAIN rooms[roomId].players :
                LET player == objs[rooms[roomId].players[k]]
                IN player.init => player.discardCooldown = 0

\* C13: the active player of a Tactical match has just made its third discard
\* and is on a cooldown of 5.
CooldownInTactical ==
    \E roomId \in DOMAIN rooms :
        /\ rooms[roomId].gameMode = TACTICAL
        /\ rooms[roomId].gameState = "playing"
        /\ Len(rooms[roomId].players) = 2
        /\ emitted = <<Event("gameStateUpdate", "room", roomId, "",
                             rooms[roomId].currentPlayer)>>
        /\ LET player == PlayerAt(roomId, rooms[roomId].currentPlayer)
           IN /\ player.discardsUsed = 3
              /\ player.discardCooldown = 5

\* Math.max(0, a)
Max0(a) == IF a > 0 THEN a ELSE 0
Min(a, b) == IF a < b THEN a ELSE b

\* what the active player's selection evaluates to
Played(roomId) == evaluateHand(SelectedObjects(objs[ActorRef(roomId)]))

\* floor(D * 0.25) on a correct prediction of the defender, floor(D * 1.25) on
\* a wrong one, D without a prediction
Predicted(roomId) ==
    LET defender == objs[OtherRef(roomId)]
        D == Played(roomId).damage
    IN IF defender.prediction = "" THEN D
       ELSE IF defender.prediction = Played(roomId).type THEN D \div 4
       ELSE (D * 5) \div 4

\* C14: in a Tactical room a playHand that goes through with evaluated damage
\* D deals, before armor, floor(D * 0.25) if the defender's pending prediction
\* names the attacker's category, floor(D * 1.25) if it names another one and
\* D if there is none; the defender has no prediction afterwards; a defender
\* with armor 0 loses exactly that much health, floored at 0.
PredictionModifier ==
    [][\A s \in Sockets, roomId \in RoomIds :
          (PlayedBy(s, roomId) /\ rooms[roomId].gameMode = TACTICAL) =>
              /\ OpponentAfter(roomId).prediction = ""
              /\ objs[OtherRef(roomId)].armor = 0 =>
                     /\ OpponentAfter(roomId).health
                            = Max0(objs[OtherRef(roomId)].health - Predicted(roomId))
                     /\ OpponentAfter(roomId).armor = 0]_vars

\* C14: the defender of a Tactical match had predicted a Royal Flush and was
\* hit by one: of the 210 it took floor(210 / 4) = 52 and its prediction is
\* gone.
PredictedRight ==
    \E roomId \in DOMAIN rooms :
        /\ rooms[roomId].gameMode = TACTICAL
        /\ rooms[roomId].gameState = "playing"
        /\ Len(rooms[roomId].players) = 2
        /\ emitted = <<Event("handPlayed", "room", roomId, "Royal Flush",
                             1 - rooms[roomId].currentPlayer)>>
        /\ rooms[roomId].lastPlayedHand.damage = 52
        /\ LET defender == PlayerAt(roomId, rooms[roomId].currentPlayer)
           IN /\ defender.health = 300 - 52
              /\ defender.armor = 0
              /\ defender.prediction = ""

\* C15: in a Tactical room the armor absorbs after the prediction multiplier:
\* a playHand that goes through against a defender with armor A, the damage
\* after the prediction being X, leaves the defender's armor at A - min(A, X)
\* and its health at max(0, health - (X - min(A, X))); the attacker's armor
\* is unchanged.
ArmorAbsorption ==
    [][\A s \in Sockets, roomId \in RoomIds :
          (PlayedBy(s, roomId) /\ rooms[roomId].gameMode = TACTICAL) =>
              LET A == objs[OtherRef(roomId)].armor
                  X == Predicted(roomId)
              IN /\ OpponentAfter(roomId).armor = A - Min(A, X)
                 /\ OpponentAfter(roomId).health
                        = Max0(objs[OtherRef(roomId)].health - (X - Min(A, X)))
                 /\ objs'[ActorRef(roomId)].armor = objs[ActorRef(roomId)].armor]_vars

\* the same for a defender that was dealt into the match
ArmorAbsorptionDealt ==
    [][\A s \in Sockets, roomId \in RoomIds :
          (/\ PlayedBy(s, roomId)
           /\ rooms[roomId].gameMode = TACTICAL
           /\ objs[OtherRef(roomId)].init) =>
              LET A == objs[OtherRef(roomId)].armor
                  X == Predicted(roomId)
              IN /\ OpponentAfter(roomId).armor = A - Min(A, X)
                 /\ OpponentAfter(roomId).health
                        = Max0(objs[OtherRef(roomId)].health - (X - Min(A, X)))
                 /\ objs'[ActorRef(roomId)].armor = objs[ActorRef(roomId)].armor]_vars

\* C15: a player who entered a Tactical match under way without being dealt
\* has been hit by a High Card: its armor is still undefined, its health is
\* NaN instead of 15 less, the turn is its own and handPlayed was never sent.
TacticalNewcomerHit ==
    \E roomId \in DOMAIN rooms :
        /\ rooms[roomId].gameMode = TACTICAL
        /\ rooms[roomId].gameState = "playing"
        /\ Len(rooms[roomId].players) = 2
        /\ rooms[roomId].lastPlayedHand.damage = 15
        /\ LET defender == PlayerAt(roomId, rooms[roomId].currentPlayer)
           IN /\ ~defender.init
              /\ defender.armor = Undefined
              /\ defender.health = NaN
        /\ emitted = <<>>
        /\ crashed

\* C15: the defender of a Tactical match had built 35 armor, had predicted a
\* Royal Flush and was hit by one: of the 52 that came through the prediction
\* the armor took 35 and the health 17.
ArmorTookThePrediction ==
    \E roomId \in DOMAIN rooms :
        /\ rooms[roomId].gameMode = TACTICAL
        /\ rooms[roomId].gameState = "playing"
        /\ Len(rooms[roomId].players) = 2
        /\ emitted = <<Event("handPlayed", "room", roomId, "Royal Flush",
                             1 - rooms[roomId].currentPlayer)>>
        /\ rooms[roomId].lastPlayedHand.damage = 17
        /\ LET defender == PlayerAt(roomId, rooms[roomId].currentPlayer)
           IN /\ defender.health = 300 - 17
              /\ defender.armor = 0
              /\ defender.prediction = ""

\* C16: in a Classic or Recycling room a playHand that goes through lowers
\* the opponent's health by exactly the damage evaluateHand gives the
\* selection, floored at 0, with no multiplier and no armor, and the room's
\* lastPlayedHand is that evaluation, with that damage.
PlainDamage ==
    [][\A s \in Sockets, roomId \in RoomIds :
          (PlayedBy(s, roomId) /\ rooms[roomId].gameMode \in {CLASSIC, RECYCLING}) =>
              /\ OpponentAfter(roomId).health
                     = Max0(objs[OtherRef(roomId)].health - Played(roomId).damage)
              /\ rooms'[roomId].lastPlayedHand = Played(roomId)]_vars

\* the same for an opponent that was dealt into the match
PlainDamageDealt ==
    [][\A s \in Sockets, roomId \in RoomIds :
          (/\ PlayedBy(s, roomId)
           /\ rooms[roomId].gameMode \in {CLASSIC, RECYCLING}
           /\ objs[OtherRef(roomId)].init) =>
              /\ OpponentAfter(roomId).health
                     = Max0(objs[OtherRef(roomId)].health - Played(roomId).damage)
              /\ rooms'[roomId].lastPlayedHand = Played(roomId)]_vars

\* C16: a player who entered a Classic or Recycling match under way without
\* being dealt has been hit by a High Card: lastPlayedHand carries the 15,
\* the opponent's health is NaN and handPlayed was never sent.
PlainNewcomerHit ==
    \E roomId \in DOMAIN rooms :
        /\ rooms[roomId].gameMode \in {CLASSIC, RECYCLING}
        /\ rooms[roomId].gameState = "playing"
        /\ Len(rooms[roomId].players) = 2
        /\ rooms[roomId].lastPlayedHand.damage = 15
        /\ LET opponent == PlayerAt(roomId, rooms[roomId].currentPlayer)
           IN ~opponent.init /\ opponent.health = NaN
        /\ emitted = <<>>
        /\ crashed

\* C16: the first hand of a Classic match was a Royal Flush: its 210 took the
\* opponent from 200 to 0 and lastPlayedHand carries the 210.
ClassicRoyalFlush ==
    \E roomId \in DOMAIN rooms :
        /\ rooms[roomId].gameMode = CLASSIC
        /\ rooms[roomId].gameState = "ended"
        /\ Len(rooms[roomId].players) = 2
        /\ rooms[roomId].lastPlayedHand.type = "Royal Flush"
        /\ rooms[roomId].lastPlayedHand.damage = 210
        /\ PlayerAt(roomId, 1 - rooms[roomId].currentPlayer).health = 0
        /\ emitted = <<Event("gameEnded", "room", roomId, "Royal Flush",
                             PlayerAt(roomId, rooms[roomId].currentPlayer).id)>>

\* the socket's player in the room holds a prediction
Pending(s, roomId) ==
    /\ Seated(s, roomId)
    /\ \A ref \in ActorRefs(s, roomId) : objs[ref].prediction # ""

\* the socket's player is the one at currentPlayerIndex
AtTurn(s, roomId) ==
    \E k \in DOMAIN rooms[roomId].players :
        /\ objs[rooms[roomId].players[k]].id = s
        /\ k - 1 = rooms[roomId].currentPlayer

\* the step told the room of a prediction
PredictionTaken(roomId) ==
    \E k \in DOMAIN emitted' : /\ emitted'[k].name = "predictionMade"
                               /\ emitted'[k].id = roomId

\* C19: makePrediction is accepted only in a Tactical room, only from the
\* player who is not at currentPlayerIndex and only while that player has no
\* prediction pending; accepted, it stores the category for that player and
\* leaves the room and everything else of the players as it was; not
\* accepted, it leaves the stored predictions as they were.
PredictionGuard ==
    [][\A s \in Sockets, roomId \in RoomIds, p \in ArmorPredictions :
          (roomId \in DOMAIN rooms /\ Seated(s, roomId) /\ makePrediction(s, roomId, p)) =>
              IF /\ rooms[roomId].gameMode = TACTICAL
                 /\ ~AtTurn(s, roomId)
                 /\ ~Pending(s, roomId)
              THEN /\ PredictionTaken(roomId)
                   /\ rooms' = rooms
                   /\ \A ref \in DOMAIN objs :
                          objs'[ref] = IF ref \in ActorRefs(s, roomId)
                                       THEN [objs[ref] EXCEPT !.prediction = p]
                                       ELSE objs[ref]
              ELSE /\ ~PredictionTaken(roomId)
                   /\ UNCHANGED <<rooms, objs>>]_vars

\* C19: the player who waits in a Tactical match of two had predicted a Royal
\* Flush and has predicted again: the room has been told of a High Card, and
\* that is the prediction the player now holds.
PredictionReplaced ==
    \E roomId \in DOMAIN rooms :
        /\ rooms[roomId].gameMode = TACTICAL
        /\ rooms[roomId].gameState = "playing"
        /\ Len(rooms[roomId].players) = 2
        /\ PlayerAt(roomId, 1 - rooms[roomId].currentPlayer).prediction = "High Card"
        /\ emitted = <<Event("predictionMade", "room", roomId, "High Card",
                             1 - rooms[roomId].currentPlayer)>>

\* the step is a buildArmor of the active player that went through
Built(s, roomId) ==
    /\ Active(s, roomId)
    /\ Len(rooms[roomId].players) = 2
    /\ objs' # objs
    /\ \E k \in DOMAIN emitted' : emitted'[k].name = "armorBuilt"
    /\ \E rnd \in PileSources : buildArmor(s, roomId, rnd)

\* C18: a buildArmor that goes through leaves the actor with a hand of
\* exactly 8 cards, all of them from the head of the actor's deck, whatever
\* was played and whatever came before, and hands the turn on as a playHand
\* that does not end the match does: currentPlayerIndex flips and turnCounter
\* grows by 1.
BuildRefillsHand ==
    [][\A s \in Sockets, roomId \in RoomIds :
          Built(s, roomId) =>
              /\ Len(objs'[ActorRef(roomId)].hand) = 8
              /\ Passed(roomId)]_vars

\* C18: armor has just been built on the thirteenth turn of a Tactical match,
\* the builder's seventh build: its deck is empty and its new hand has only
\* the three cards that were left.
BuiltShortHand ==
    \E roomId \in DOMAIN rooms :
        /\ rooms[roomId].gameMode = TACTICAL
        /\ rooms[roomId].gameState = "playing"
        /\ Len(rooms[roomId].players) = 2
        /\ rooms[roomId].turn = 14
        /\ emitted = <<Event("armorBuilt", "room", roomId, "High Card",
                             1 - rooms[roomId].currentPlayer)>>
        /\ LET builder == PlayerAt(roomId, 1 - rooms[roomId].currentPlayer)
           IN /\ Len(builder.hand) = 3
              /\ builder.deck = <<>>
              /\ builder.discardPile = <<>>
              /\ builder.armor = 14

\* the step is a playHand that went through and did not end the match
TurnElapsed(s, roomId) ==
    /\ PlayedBy(s, roomId)
    /\ rooms'[roomId].gameState = "playing"

\* C12: in a Recycling room the discard that brings discardsUsed to
\* maxDiscards puts that player's discardCooldown at 5, and no other discard
\* touches it; every turn that elapses takes exactly one off each player's
\* positive cooldown, and the player whose cooldown reaches 0 has discardsUsed
\* reset to 0 while every other discardsUsed stays; a discard of 1 to 5 cards
\* by the active player whose cooldown is 0 goes through; and no player is
\* ever at discardsUsed = maxDiscards with discardCooldown = 0.
RecyclingCooldown ==
    /\ [](\A roomId \in DOMAIN rooms :
             rooms[roomId].gameMode = RECYCLING =>
                 \A k \in DOMAIN rooms[roomId].players :
                     LET player == objs[rooms[roomId].players[k]]
                     IN player.init =>
                            ~(player.discardsUsed = player.maxDiscards
                              /\ player.discardCooldown = 0))
    /\ [][\A s \in Sockets, roomId \in RoomIds :
             /\ (Discarded(s, roomId) /\ rooms[roomId].gameMode = RECYCLING) =>
                    LET after == objs'[ActorRef(roomId)]
                    IN after.discardCooldown
                           = IF after.discardsUsed = after.maxDiscards THEN 5
                             ELSE objs[ActorRef(roomId)].discardCooldown
             /\ (TurnElapsed(s, roomId) /\ rooms[roomId].gameMode = RECYCLING) =>
                    \A k \in DOMAIN rooms[roomId].players :
                        LET before == objs[rooms[roomId].players[k]]
                            after == objs'[rooms[roomId].players[k]]
                        IN /\ after.discardCooldown = Max0(before.discardCooldown - 1)
                           /\ after.discardsUsed
                                  = IF before.discardCooldown = 1 THEN 0
                                    ELSE before.discardsUsed
             /\ (/\ Active(s, roomId)
                 /\ rooms[roomId].gameMode = RECYCLING
                 /\ Len(rooms[roomId].players) = 2
                 /\ objs[ActorRef(roomId)].init
                 /\ objs[ActorRef(roomId)].discardCooldown = 0
                 /\ Len(objs[ActorRef(roomId)].selectedCards) \in 1..5
                 /\ \E rnd \in PileSources : discardCards(s, roomId, rnd))
                    => objs'[ActorRef(roomId)].discardsUsed
                           = objs[ActorRef(roomId)].discardsUsed + 1]_vars

\* C12: a player of a Recycling match has discarded again on the seventh
\* turn: its three discards of the first turn and its three plays since lie
\* on its pile under the card it has just discarded, its discardsUsed is 1
\* and it is on no cooldown.
DiscardedAgain ==
    \E roomId \in DOMAIN rooms :
        /\ rooms[roomId].gameMode = RECYCLING
        /\ rooms[roomId].gameState = "playing"
        /\ Len(rooms[roomId].players) = 2
        /\ rooms[roomId].turn = 7
        /\ emitted = <<Event("gameStateUpdate", "room", roomId, "",
                             rooms[roomId].currentPlayer)>>
        /\ LET player == PlayerAt(roomId, rooms[roomId].currentPlayer)
           IN /\ player.discardsUsed = 1
              /\ player.discardCooldown = 0
              /\ Len(player.discardPile) = 7

\* the armor a category is worth
TableGain(type) ==
    CASE type = "High Card" -> 2
      [] type = "One Pair" -> 5
      [] type = "Two Pair" -> 8
      [] type = "Three of a Kind" -> 12
      [] type = "Straight" -> 15
      [] type = "Flush" -> 18
      [] type = "Full House" -> 22
      [] type = "Four of a Kind" -> 25
      [] type = "Straight Flush" -> 30
      [] type = "Royal Flush" -> 35

\* C17: every dealt-in player of a Tactical room has 0 <= armor <= 50; a
\* buildArmor that goes through raises the actor's armor by what the table
\* gives the category of its selection, capped at 50, and changes neither
\* player's health nor the opponent's armor; in a Classic or Recycling room
\* buildArmor changes nothing.
ArmorBounds ==
    /\ [](\A roomId \in DOMAIN rooms :
             rooms[roomId].gameMode = TACTICAL =>
                 \A k \in DOMAIN rooms[roomId].players :
                     LET player == objs[rooms[roomId].players[k]]
                     IN player.init => player.armor \in 0..50)
    /\ [][\A s \in Sockets, roomId \in RoomIds :
             /\ Built(s, roomId) =>
                    /\ rooms[roomId].gameMode = TACTICAL
                    /\ objs'[ActorRef(roomId)].armor
                           = Min(50, objs[ActorRef(roomId)].armor
                                         + TableGain(Played(roomId).type))
                    /\ objs'[ActorRef(roomId)].health = objs[ActorRef(roomId)].health
                    /\ objs'[OtherRef(roomId)].health = objs[OtherRef(roomId)].health
                    /\ objs'[OtherRef(roomId)].armor = objs[OtherRef(roomId)].armor
             /\ (/\ roomId \in DOMAIN rooms
                 /\ rooms[roomId].gameMode \in {CLASSIC, RECYCLING}
                 /\ \E rnd \in PileSources : buildArmor(s, roomId, rnd))
                    => UNCHANGED <<rooms, objs>>]_vars

\* C17: on the third turn of a Tactical match the player who had built 35
\* armor from a Royal Flush on the first has built again, from a Straight
\* Flush worth 30, and stands at the cap of 50.
ArmorCapped ==
    \E roomId \in DOMAIN rooms :
        /\ rooms[roomId].gameMode = TACTICAL
        /\ rooms[roomId].gameState = "playing"
        /\ Len(rooms[roomId].players) = 2
        /\ rooms[roomId].turn = 4
        /\ emitted = <<Event("armorBuilt", "room", roomId, "Straight Flush",
                             1 - rooms[roomId].currentPlayer)>>
        /\ PlayerAt(roomId, 1 - rooms[roomId].currentPlayer).armor = 50
        /\ Len(PlayerAt(roomId, 1 - rooms[roomId].currentPlayer).discardPile) = 10

\* a playHand of the active player against an opponent that went through,
\* whatever the shuffle of a recycled discard pile drew
PlayedIn(s, roomId) ==
    /\ Active(s, roomId)
    /\ Len(rooms[roomId].players) = 2
    /\ objs' # objs
    /\ rooms' # rooms
    /\ \E rnd \in ClassicPileSources : playHand(s, roomId, rnd)

\* the cards a play takes out of the hand, the cards it leaves, the cards it
\* adds to the hand
PlayedCards(player) == SelectSeq(player.hand, IsSelected)
KeptCards(player) == SelectSeq(player.hand, NotSelected)
DrawnCards(before, after) ==
    SubSeq(after.hand, Len(KeptCards(before)) + 1, Len(after.hand))

\* C20 (as stated): in a Classic room a playHand that goes through with k
\* selected cards keeps the unplayed cards of the hand unchanged, puts exactly
\* the k played cards on the actor's discard pile, and draws exactly k cards
\* from the head of the actor's deck, so that the hand has its size (8) again.
ClassicReplenishment ==
    [][\A s \in Sockets, roomId \in RoomIds :
          (PlayedIn(s, roomId) /\ rooms[roomId].gameMode = CLASSIC) =>
              LET before == objs[ActorRef(roomId)]
                  after == objs'[ActorRef(roomId)]
                  k == Len(before.selectedCards)
              IN /\ Len(PlayedCards(before)) = k
                 /\ SubSeq(after.hand, 1, Len(KeptCards(before))) = KeptCards(before)
                 /\ Len(after.hand) = Len(before.hand)
                 /\ Len(after.hand) = HandSize
                 /\ after.discardPile
                        = before.discardPile \o CleanCards(PlayedCards(before))
                 /\ Len(before.deck) >= k
                 /\ DrawnCards(before, after) = CleanCards(SubSeq(before.deck, 1, k))
                 /\ after.deck = SubSeq(before.deck, k + 1, Len(before.deck))]_vars

\* C20 (amended): in a Classic room a playHand that goes through with k
\* selected cards keeps the unplayed cards of the hand unchanged and draws
\* exactly k cards, so that the hand has its size (8) again. While the deck
\* holds k cards or more, the k played cards go on the actor's discard pile
\* and the k cards come from the head of the deck. When the deck holds fewer
\* than k cards, the whole discard pile, the k played cards included, is
\* shuffled and appended to the deck before the draw: the pile is left empty,
\* and the deck's old cards are drawn first.
ClassicReplenishmentRecycling ==
    [][\A s \in Sockets, roomId \in RoomIds :
          (PlayedIn(s, roomId) /\ rooms[roomId].gameMode = CLASSIC) =>
              LET before == objs[ActorRef(roomId)]
                  after == objs'[ActorRef(roomId)]
                  k == Len(before.selectedCards)
                  stock == DrawnCards(before, after) \o after.deck
              IN /\ Len(PlayedCards(before)) = k
                 /\ SubSeq(after.hand, 1, Len(KeptCards(before))) = KeptCards(before)
                 /\ Len(after.hand) = Len(before.hand)
                 /\ Len(after.hand) = HandSize
                 /\ Len(DrawnCards(before, after)) = k
                 /\ IF Len(before.deck) >= k
                    THEN /\ after.discardPile
                               = before.discardPile \o CleanCards(PlayedCards(before))
                         /\ stock = before.deck
                    ELSE /\ after.discardPile = <<>>
                         /\ SubSeq(stock, 1, Len(before.deck)) = before.deck
                         /\ Len(stock) = Len(before.deck) + Len(before.discardPile) + k
                         /\ Ids(stock) = Ids(before.deck) \cup Ids(before.discardPile)
                                             \cup Ids(PlayedCards(before))]_vars

\* C20: a Classic match went on until a player's deck was empty: that
\* player's next card was played with no card left to draw, the discard pile
\* of 45 cards went into the deck, one of them came back into the hand, and
\* the pile is empty.
DeckRecycledOnPlay ==
    \E roomId \in DOMAIN rooms :
        /\ rooms[roomId].gameMode = CLASSIC
        /\ rooms[roomId].gameState = "playing"
        /\ Len(rooms[roomId].players) = 2
        /\ \E k \in DOMAIN emitted : emitted[k].name = "handPlayed"
        /\ LET player == PlayerAt(roomId, 1 - rooms[roomId].currentPlayer)
           IN /\ player.discardsUsed = 3
              /\ player.discardPile = <<>>
              /\ Len(player.hand) = HandSize
              /\ Len(player.deck) = 44
              /\ player.selectedCards = <<>>

\* C21: in a Tactical or Recycling room a playHand that goes through leaves
\* the actor with a hand of exactly 8 cards, however many cards were played
\* and whatever happened earlier in the match.
RedrawnToEight ==
    [][\A s \in Sockets, roomId \in RoomIds :
          (PlayedBy(s, roomId) /\ rooms[roomId].gameMode \in {TACTICAL, RECYCLING})
              => Len(objs'[ActorRef(roomId)].hand) = HandSize]_vars

\* C21: the player who built armor on its first seven turns of a Tactical
\* match has played a card on its eighth: the hand of three it played from is
\* a hand of three again.
PlayedShortHand ==
    \E roomId \in DOMAIN rooms :
        /\ rooms[roomId].gameMode = TACTICAL
        /\ rooms[roomId].gameState = "playing"
        /\ Len(rooms[roomId].players) = 2
        /\ rooms[roomId].turn = 16
        /\ \E k \in DOMAIN emitted : emitted[k].name = "handPlayed"
        /\ LET actor == PlayerAt(roomId, 1 - rooms[roomId].currentPlayer)
           IN /\ Len(actor.hand) = 3
              /\ actor.deck = <<>>
              /\ actor.discardPile = <<>>

\* the hand as the claims describe it: how many cards, of which ranks and
\* suits, whatever their order
RankSet(h) == {h[i].rank : i \in DOMAIN h}
Copies(h, r) == Cardinality({i \in DOMAIN h : h[i].rank = r})
SameRank(h) == Cardinality(RankSet(h)) = 1
SameSuit(h) == Cardinality({h[i].suit : i \in DOMAIN h}) = 1
TwoPairs(h) ==
    Cardinality(RankSet(h)) = 2 /\ \A r \in RankSet(h) : Copies(h, r) = 2
Highest(h) == CHOOSE r \in RankSet(h) : \A q \in RankSet(h) : q <= r
Lowest(h) == CHOOSE r \in RankSet(h) : \A q \in RankSet(h) : r <= q
FiveRanks(h) == Len(h) = 5 /\ Cardinality(RankSet(h)) = 5
StraightRanks(h) ==
    /\ FiveRanks(h)
    /\ \/ RankSet(h) = {1, 2, 3, 4, 5}
       \/ RankSet(h) = {1, 10, 11, 12, 13}
       \/ Highest(h) - Lowest(h) = 4
FlushSuits(h) == Len(h) = 5 /\ SameSuit(h)
FullHouseRanks(h) ==
    /\ Len(h) = 5
    /\ \E r \in RankSet(h) : Copies(h, r) = 3
    /\ \E r \in RankSet(h) : Copies(h, r) = 2
RoyalRanks(h) == FlushSuits(h) /\ FiveRanks(h) /\ RankSet(h) = {1, 10, 11, 12, 13}

\* the rule of the claim for a selection
ValidByRule(h) ==
    \/ Len(h) = 1
    \/ Len(h) = 2 /\ SameRank(h)
    \/ Len(h) = 3 /\ SameRank(h)
    \/ Len(h) = 4 /\ (SameRank(h) \/ TwoPairs(h))
    \/ Len(h) = 5 /\ (RoyalRanks(h) \/ (FlushSuits(h) /\ StraightRanks(h))
                       \/ FullHouseRanks(h) \/ FlushSuits(h) \/ StraightRanks(h))

\* C22: validateHand finds a selection of cards of one deck valid exactly
\* when it is 1 card, 2 or 3 cards of one rank, 4 cards that are four of a
\* kind or two pair, or 5 cards that are a Royal Flush, a Straight Flush, a
\* Full House, a Flush or a Straight; 0 cards, more than 5 cards and every
\* other combination of 5 cards are invalid.
ValidationRule ==
    validated # NotCalled =>
        /\ validated.valid = ValidByRule(candidate)
        /\ Len(candidate) \notin 1..5 => ~validated.valid
        /\ (Len(candidate) = 5 /\ ~FlushSuits(candidate) /\ ~StraightRanks(candidate)
                /\ ~FullHouseRanks(candidate)) => ~validated.valid

\* C22: four deuces and a three have been handed to validateHand and were
\* found invalid.
FourWithKickerRefused ==
    /\ validated # NotCalled
    /\ Len(candidate) = 5
    /\ Copies(candidate, 2) = 4
    /\ Copies(candidate, 3) = 1
    /\ ~validated.valid

\* C23: evaluateHand gives the type "Invalid Hand" exactly for the
\* selections validateHand finds invalid, and gives an invalid selection the
\* damage 0.
EvaluationGate ==
    evaluated # NotCalled =>
        /\ (evaluated.type = "Invalid Hand") <=> ~validated.valid
        /\ ~validated.valid => evaluated.damage = 0

\* C23: the empty selection has been handed to both: validateHand found it
\* invalid and evaluateHand called it "No Cards".
NoCardsEvaluated ==
    /\ candidate = <<>>
    /\ validated = Invalid("No cards selected")
    /\ evaluated # NotCalled
    /\ evaluated.type = "No Cards"
    /\ evaluated.damage = 0

\* the one category the precedence of the claim gives a selection
CategoryByRule(h) ==
    IF RoyalRanks(h) THEN "Royal Flush"
    ELSE IF FlushSuits(h) /\ StraightRanks(h) THEN "Straight Flush"
    ELSE IF \E r \in RankSet(h) : Copies(h, r) = 4 THEN "Four of a Kind"
    ELSE IF FullHouseRanks(h) THEN "Full House"
    ELSE IF FlushSuits(h) THEN "Flush"
    ELSE IF StraightRanks(h) THEN "Straight"
    ELSE IF \E r \in RankSet(h) : Copies(h, r) = 3 THEN "Three of a Kind"
    ELSE IF Cardinality({r \in RankSet(h) : Copies(h, r) = 2}) = 2 THEN "Two Pair"
    ELSE IF \E r \in RankSet(h) : Copies(h, r) = 2 THEN "One Pair"
    ELSE "High Card"

Categories ==
    {"Royal Flush", "Straight Flush", "Four of a Kind", "Full House", "Flush",
     "Straight", "Three of a Kind", "Two Pair", "One Pair", "High Card"}

\* Ace 14, otherwise the rank (J, Q, K are 11, 12, 13)
RECURSIVE FaceSum(_)
FaceSum(h) ==
    IF h = <<>> THEN 0
    ELSE (IF Head(h).rank = 1 THEN 14 ELSE Head(h).rank) + FaceSum(Tail(h))

\* C24: evaluateHand gives a valid selection the one category the precedence
\* Royal Flush > Straight Flush > Four of a Kind > Full House > Flush >
\* Straight > Three of a Kind > Two Pair > One Pair > High Card chooses, and
\* the damage baseDamage(category) + the sum of the face values; A, 10, J, Q,
\* K of one suit is a Royal Flush, the category of the highest base damage.
CategoryPrecedence ==
    (evaluated # NotCalled /\ validated.valid) =>
        /\ evaluated.type \in Categories
        /\ evaluated.type = CategoryByRule(candidate)
        /\ evaluated.damage = BaseDamage(evaluated.type) + FaceSum(candidate)
        /\ (SameSuit(candidate) /\ Len(candidate) = 5
                /\ RankSet(candidate) = {1, 10, 11, 12, 13})
              => (evaluated.type = "Royal Flush"
                    /\ \A c \in Categories : BaseDamage(c) <= BaseDamage(evaluated.type))

\* C24: A, 10, J, Q, K of hearts have been evaluated: a Royal Flush of
\* 150 + 60 damage.
RoyalFlushEvaluated ==
    /\ evaluated # NotCalled
    /\ SameSuit(candidate)
    /\ RankSet(candidate) = {1, 10, 11, 12, 13}
    /\ Len(candidate) = 5
    /\ evaluated.type = "Royal Flush"
    /\ evaluated.damage = 210

\* C25: for a selection of 1 to 5 cards the client's preview gives the
\* validity, the category and the damage the server gives.
PreviewMatchesServer ==
    (previewed # NotCalled /\ Len(candidate) \in 1..5) =>
        /\ previewed.validation.valid = validated.valid
        /\ previewed.damage.valid = validated.valid
        /\ validated.valid => previewed.damage.type = evaluated.type
        /\ previewed.damage.damage = evaluated.damage

\* C25: A, 10, J, Q, K of mixed suits have been handed to the server and to
\* the client's preview: a Straight of 85 damage for the server, an invalid
\* selection for the client.
BroadwayPreviewedInvalid ==
    /\ previewed # NotCalled
    /\ Len(candidate) = 5
    /\ RankSet(candidate) = {1, 10, 11, 12, 13}
    /\ ~SameSuit(candidate)
    /\ validated.valid
    /\ evaluated.type = "Straight"
    /\ evaluated.damage = 85
    /\ ~previewed.validation.valid
    /\ previewed.damage.type = "Invalid"
    /\ previewed.damage.damage = 0

\* C30: five cards of five ranks are taken for a straight exactly when the
\* ranks are 1-2-3-4-5, 1-10-11-12-13 or span four (max - min = 4); runs
\* that wrap around the ace, such as 1-2-3-4-13 or 1-2-11-12-13, are not. In
\* mixed suits 1-2-3-4-5 and 1-10-11-12-13 evaluate to Straight.
StraightDetection ==
    (evaluated # NotCalled /\ FiveRanks(candidate)) =>
        /\ (evaluated.type \in {"Straight", "Straight Flush", "Royal Flush"})
              <=> StraightRanks(candidate)
        /\ ~SameSuit(candidate) =>
              /\ validated.valid <=> StraightRanks(candidate)
              /\ (evaluated.type = "Straight") <=> StraightRanks(candidate)
        /\ RankSet(candidate) \in {{1, 2, 3, 4, 13}, {1, 2, 11, 12, 13}}
              => evaluated.type \notin {"Straight", "Straight Flush", "Royal Flush"}
        /\ (~SameSuit(candidate)
                /\ RankSet(candidate) \in {{1, 2, 3, 4, 5}, {1, 10, 11, 12, 13}})
              => evaluated.type = "Straight"

\* C30: A, 2, 3, 4, 5 of mixed suits have been evaluated: a Straight of
\* 25 + 28 damage.
LowStraightEvaluated ==
    /\ evaluated # NotCalled
    /\ RankSet(candidate) = {1, 2, 3, 4, 5}
    /\ Len(candidate) = 5
    /\ ~SameSuit(candidate)
    /\ validated.valid
    /\ evaluated.type = "Straight"
    /\ evaluated.damage = 53
---------------------------------------------------------------------------
(* Rooms and their players in the lobby *)

\* the connections room.players lists
Members(rs, heap, roomId) ==
    {heap[rs[roomId].players[i]].id : i \in DOMAIN rs[roomId].players}

\* C26: after any sequence of createRoom, joinRoom, leaveRoom and disconnect
\* no room of the registry has an empty player list and no room lists a player
\* whose connection has disconnected
RoomLifetime ==
    \A roomId \in DOMAIN rooms :
        /\ rooms[roomId].players # <<>>
        /\ Members(rooms, objs, roomId) \cap disconnected = {}

\* a room still lists a connection that is gone
GhostInRoom ==
    \E roomId \in DOMAIN rooms, s \in disconnected :
        /\ s \in Members(rooms, objs, roomId)
        /\ s \notin DOMAIN players

\* no connection is listed by two rooms, and player.roomId names exactly the
\* room that lists the player
OneRoomPerPlayer ==
    /\ \A r1, r2 \in DOMAIN rooms :
           r1 # r2 => Members(rooms, objs, r1) \cap Members(rooms, objs, r2) = {}
    /\ \A roomId \in DOMAIN rooms :
           \A i \in DOMAIN rooms[roomId].players :
               objs[rooms[roomId].players[i]].roomId = roomId
    /\ \A s \in DOMAIN players :
           LET roomId == objs[players[s]].roomId
           IN roomId # NoRoom =>
                  /\ roomId \in DOMAIN rooms
                  /\ \E i \in DOMAIN rooms[roomId].players :
                         rooms[roomId].players[i] = players[s]

\* every room but roomId, and every player such a room lists, is as it was
OtherRoomsUntouched(roomId) ==
    \A other \in DOMAIN rooms \ {roomId} :
        /\ other \in DOMAIN rooms'
        /\ rooms'[other] = rooms[other]
        /\ \A i \in DOMAIN rooms[other].players :
               LET ref == rooms[other].players[i]
               IN ref \in DOMAIN objs' /\ objs'[ref] = objs[ref]

\* C27: a player belongs to at most one room at a time: no connection is in
\* the player lists of two rooms, a session's roomId names exactly the room
\* that lists it, and a createRoom or joinRoom applied to one room changes no
\* other room
SingleMembership ==
    [][/\ OneRoomPerPlayer'
       /\ \A s \in Visitors :
              /\ createRoom(s, CLASSIC) => OtherRoomsUntouched(nextRoomId)
              /\ \A roomId \in LobbyRoomIds :
                     joinRoom(s, roomId) => OtherRoomsUntouched(roomId)]_vars

\* one connection is listed by two rooms at once
InTwoRooms ==
    \E s \in Visitors, r1, r2 \in DOMAIN rooms :
        /\ r1 # r2
        /\ s \in Members(rooms, objs, r1) \cap Members(rooms, objs, r2)
        /\ objs[players[s]].roomId = r2

\* the four conditions joinRoom refuses
JoinRefused(s, roomId) ==
    \/ roomId \notin DOMAIN rooms
    \/ s \notin DOMAIN players
    \/ Len(rooms[roomId].players) >= 2
    \/ s \in Members(rooms, objs, roomId)

ErrorTo(s) ==
    /\ Len(emitted') = 1
    /\ emitted'[1].name = "error"
    /\ emitted'[1].kind = "sender"
    /\ emitted'[1].id = s

\* C28: joinRoom fails with an error event to the sender and leaves the room
\* registry, the room's player list and the sender's session unchanged when
\* the room does not exist, the sender has no session, the room has 2 players
\* or the sender is already in it; so a room never has more than 2 players
JoinRoomRefusals ==
    [][/\ \A s \in Visitors, roomId \in LobbyRoomIds :
              joinRoom(s, roomId) /\ JoinRefused(s, roomId) =>
                  /\ ErrorTo(s)
                  /\ rooms' = rooms
                  /\ players' = players
                  /\ objs' = objs
                  /\ timers' = timers
       /\ \A roomId \in DOMAIN rooms' : Len(rooms'[roomId].players) <= 2]_vars

\* a third connection has just been refused by a room of two
RefusedByFullRoom ==
    \E s \in Visitors, roomId \in DOMAIN rooms :
        /\ emitted = <<Event("error", "sender", s, "Room is full", 0)>>
        /\ Len(rooms[roomId].players) = 2
        /\ s \in DOMAIN players
        /\ s \notin Members(rooms, objs, roomId)
---------------------------------------------------------------------------
(* Handlers that throw *)

\* C29: nothing is fatal: no inbound action, in any reachable room state and
\* from any sender, makes a handler fail by dereferencing a missing room,
\* player or opponent
NothingFatal == ~crashed

\* a handler has thrown in a playing room of one player, who had selected
\* cards to play
FatalAction ==
    /\ crashed
    /\ \E roomId \in DOMAIN rooms :
           /\ rooms[roomId].gameState = "playing"
           /\ Len(rooms[roomId].players) = 1
           /\ objs[rooms[roomId].players[1]].init
           /\ objs[rooms[roomId].players[1]].selectedCards # <<>>
---------------------------------------------------------------------------
(* The two servers' evaluators *)

\* C31: the two server-side evaluators are identical apart from the
\* base-damage table: for every selection of 0 to 6 cards of one deck they
\* agree on validateHand's validity and on the category evaluateHand returns
EvaluatorsAgree ==
    singleMode # NotCalled =>
        /\ singleMode.validation.valid = validated.valid
        /\ singleMode.result.type = evaluated.type

\* ace, ten, jack, queen and king of one suit: a Royal Flush for one server,
\* a Flush for the other
RoyalFlushOnlyForOne ==
    /\ singleMode # NotCalled
    /\ RanksOf(candidate) = <<1, 10, 11, 12, 13>>
    /\ IsFlush(candidate)
    /\ evaluated.type = "Royal Flush"
    /\ singleMode.result.type = "Flush"
    /\ singleMode.result.damage = BaseDamageSingle("Flush") + FaceValueDamage(candidate)
---------------------------------------------------------------------------
(* Deck replenishment *)

\* what ensureDeckHasCards(deck, discardPile, need) is to do
EnsureContract(args, after) ==
    /\ Len(args.deck) >= args.cardsNeeded =>
           /\ after.deck = args.deck
           /\ after.discardPile = args.discardPile
           /\ after.ok
    /\ Len(args.deck) < args.cardsNeeded =>
           /\ after.discardPile = <<>>
           /\ Len(after.deck) = Len(args.deck) + Len(args.discardPile)
           /\ SubSeq(after.deck, 1, Len(args.deck)) = args.deck
           /\ {after.deck[i] : i \in (Len(args.deck) + 1)..Len(after.deck)}
                  = {args.discardPile[i] : i \in DOMAIN args.discardPile}
           /\ after.ok = (Len(after.deck) >= args.cardsNeeded)
    /\ Ids(after.deck) \cup Ids(after.discardPile)
           = Ids(args.deck) \cup Ids(args.discardPile)
    /\ Ids(after.deck) \cap Ids(after.discardPile) = {}

\* cards enter the deck of a player in play only as ensureDeckHasCards moves
\* them: the whole discard pile goes, the new cards come from the pile or
\* from the cards the handler has just put on it, and the deck was short
EntersDeckByPile(before, after) ==
    Ids(after.deck) \ Ids(before.deck) # {} =>
        /\ Len(before.deck) < HandSize
        /\ Ids(before.discardPile) \cap Ids(after.discardPile) = {}
        /\ Ids(before.discardPile) \subseteq Ids(after.deck) \cup Ids(after.hand)
        /\ Ids(after.deck) \ Ids(before.deck)
               \subseteq Ids(before.discardPile) \cup Ids(PlayedCards(before))

\* C32: ensureDeckHasCards changes nothing and returns true if |deck| >= need;
\* otherwise it appends the whole shuffled discard pile to the deck, empties
\* the pile and returns whether |deck| >= need now; it preserves the ids in
\* deck and pile together, and a card enters a deck after the deal only this way
EnsureDeckContract ==
    [][/\ replenished' # NotCalled => EnsureContract(ensureArgs', replenished')
       /\ \A ref \in DOMAIN objs \cap DOMAIN objs' :
              (objs[ref].init /\ objs'[ref].init) => EntersDeckByPile(objs[ref], objs'[ref])]_vars

\* a call that found the deck short: the pile went under the deck in another
\* order and the deck is still short
PileShuffledIn ==
    /\ replenished # NotCalled
    /\ Len(ensureArgs.deck) < ensureArgs.cardsNeeded
    /\ Len(ensureArgs.discardPile) > 1
    /\ replenished.discardPile = <<>>
    /\ replenished.deck # ensureArgs.deck \o ensureArgs.discardPile
    /\ Len(replenished.deck) = Len(ensureArgs.deck) + Len(ensureArgs.discardPile)
    /\ ~replenished.ok
---------------------------------------------------------------------------
(* The round trip of a card *)

\* the card is as createDeck made it: its id, suit and rank, no flag set
AsDealt(card) == card = NewCard(card.id)

\* the cards dealt into the hand by the "drain" deal
FirstHand == Ids(SubSeq(createDeck("drain"), 1, HandSize))

\* C33: every card in a deck or in a discard pile has selected = false and
\* markedForDiscard = false, and a card that travels hand -> discard pile ->
\* deck -> hand keeps its id, suit and rank and arrives in the hand with both
\* flags cleared
CardRoundTrip ==
    [][\A ref \in DOMAIN objs' :
           LET after == objs'[ref] IN
           after.init =>
               /\ \A k \in DOMAIN after.deck : AsDealt(after.deck[k])
               /\ \A k \in DOMAIN after.discardPile : AsDealt(after.discardPile[k])
               /\ \A k \in DOMAIN after.hand :
                      /\ AsDealt(CleanCard(after.hand[k]))
                      /\ (/\ ref \in DOMAIN objs
                          /\ objs[ref].init
                          /\ after.hand[k].id \notin Ids(objs[ref].hand))
                             => AsDealt(after.hand[k])]_vars

\* a card of the first hand is back: the deck ran out, the pile was shuffled
\* in, and the play just made drew the card again
BackInHand ==
    \E roomId \in DOMAIN rooms :
        /\ rooms[roomId].gameState = "playing"
        /\ Len(rooms[roomId].players) = 2
        /\ \E k \in DOMAIN emitted : emitted[k].name = "handPlayed"
        /\ LET player == PlayerAt(roomId, 1 - rooms[roomId].currentPlayer)
           IN /\ player.discardsUsed = MaxDiscardsInit
              /\ Len(player.hand) = HandSize
              /\ player.hand[HandSize].id \in FirstHand
              /\ AsDealt(player.hand[HandSize])
---------------------------------------------------------------------------
(* The deferred game start *)

\* the room the oldest pending timer names
TimerRoom == Head(timers)

\* C34: the game start scheduled when the second player joins is a no-op if,
\* when it fires, the room no longer exists or does not have exactly 2
\* players: no player state is initialised, gameState is unchanged and no
\* gameStarted is emitted
DeferredStartGuard ==
    [][\A first \in {0, 1} :
           (/\ startGame(first, <<"mirror", "mirror">>)
            /\ (TimerRoom \notin DOMAIN rooms \/ Len(rooms[TimerRoom].players) # 2))
               => /\ rooms' = rooms
                  /\ objs' = objs
                  /\ players' = players
                  /\ \A k \in DOMAIN emitted' : emitted'[k].name # "gameStarted"]_vars

\* the last step emitted nothing: the timer has fired after the second player
\* had gone again, and the room still waits with one player that was never
\* dealt in
StartSkipped ==
    \E roomId \in DOMAIN rooms :
        /\ timers = <<>>
        /\ emitted = <<>>
        /\ rooms[roomId].gameState = "waiting"
        /\ Len(rooms[roomId].players) = 1
        /\ ~objs[rooms[roomId].players[1]].init

\* C35: a match is initialised exactly once per start: a deferred start that
\* fires while the room's gameState is already playing does not re-deal
\* hands, reset health or change currentPlayer or turn of the running match
StartsOnce ==
    [][\A first \in {0, 1} :
           (/\ startGame(first, <<"mirror", "mirror">>)
            /\ TimerRoom \in DOMAIN rooms
            /\ rooms[TimerRoom].gameState = "playing")
               => /\ rooms' = rooms
                  /\ \A i \in DOMAIN rooms[TimerRoom].players :
                         objs'[rooms[TimerRoom].players[i]]
                             = objs[rooms[TimerRoom].players[i]]
                  /\ \A k \in DOMAIN emitted' : emitted'[k].name # "gameStarted"]_vars

\* the only room ever opened has just been started although a connection
\* that is no longer in it was dealt in before: the match was started twice
StartedAgain ==
    \E roomId \in DOMAIN rooms, s \in DOMAIN players :
        /\ nextRoomId = 2
        /\ \E k \in DOMAIN emitted :
               emitted[k].name = "gameStarted" /\ emitted[k].kind = "room"
        /\ rooms[roomId].gameState = "playing"
        /\ Len(rooms[roomId].players) = 2
        /\ s \notin Members(rooms, objs, roomId)
        /\ objs[players[s]].init
---------------------------------------------------------------------------
(* Health *)

\* 0 <= health <= maxHealth
HealthInRange(player) ==
    /\ IsNumber(player.health)
    /\ IsNumber(player.maxHealth)
    /\ 0 <= player.health
    /\ player.health <= player.maxHealth

\* the health of the players of a started match
HealthOfMatch(roomId) ==
    LET room == rooms[roomId]
        seats == DOMAIN room.players
    IN /\ room.gameState \in {"playing", "ended"} =>
              \A i \in seats : HealthInRange(objs[room.players[i]])
       /\ room.gameState = "playing" =>
              \A i \in seats : JsPositive(objs[room.players[i]].health)
       /\ (room.gameState = "ended" /\ Len(room.players) = 2) =>
              Cardinality({i \in seats : objs[room.players[i]].health = 0}) = 1

\* the step deals a match in: a game start or a rematch, which may fail
\* after the deal
DealsIn ==
    \/ \E k \in DOMAIN emitted' : emitted'[k].name \in {"gameStarted", "rematchAccepted"}
    \/ crashed' /\ ~crashed

\* the step is a successful play in a room where the player is the opponent
HitBy(ref) ==
    \E roomId \in DOMAIN rooms :
        /\ \E k \in DOMAIN emitted' :
               /\ emitted'[k].name \in {"handPlayed", "gameEnded"}
               /\ emitted'[k].id = roomId
        /\ Len(rooms[roomId].players) = 2
        /\ rooms[roomId].players[(1 - rooms[roomId].currentPlayer) + 1] = ref

\* the step ends the match of the room
EndsMatch(roomId) ==
    /\ roomId \in DOMAIN rooms'
    /\ rooms[roomId].gameState = "playing"
    /\ rooms'[roomId].gameState = "ended"

\* C36: for every player of a started match 0 <= health <= maxHealth; health
\* changes only through a successful playHand of the opponent, never
\* increasing, or through (re)initialisation; while playing both players
\* have health > 0; when ended exactly one player has health 0, the one who
\* did not make the last play
HealthInvariants ==
    [][/\ \A roomId \in DOMAIN rooms' : HealthOfMatch(roomId)'
       /\ \A roomId \in DOMAIN rooms :
              EndsMatch(roomId) =>
                  /\ PlayerAt(roomId, 1 - rooms[roomId].currentPlayer).health' = 0
                  /\ JsPositive(PlayerAt(roomId, rooms[roomId].currentPlayer).health')
       /\ \A ref \in DOMAIN objs \cap DOMAIN objs' :
              objs'[ref].health # objs[ref].health =>
                  \/ DealsIn
                  \/ HitBy(ref) /\ JsPositive(objs[ref].health - objs'[ref].health)]_vars

\* a playing room lists a player whose health was never dealt
UndealtInMatch ==
    \E roomId \in DOMAIN rooms :
        /\ rooms[roomId].gameState = "playing"
        /\ Len(rooms[roomId].players) = 2
        /\ \E i \in DOMAIN rooms[roomId].players :
               ~IsNumber(objs[rooms[roomId].players[i]].health)
        /\ \E i \in DOMAIN rooms[roomId].players :
               JsPositive(objs[rooms[roomId].players[i]].health)

---------------------------------------------------------------------------
(* A Classic or Recycling match played to its end: on every turn the player
   on turn selects the first card of its hand and plays it; once the match
   has ended a player may accept a rematch *)

MaxEndTurn == 200

EndModes == {CLASSIC, RECYCLING}
EndSources == {"keep", "pairs", "drain"}

EndTurnLeft(roomId) == rooms[roomId].turn <= MaxEndTurn

EndCreateRoom ==
    \E s \in Creators, m \in EndModes :
        nextRoomId <= MaxRooms /\ InLobby(s) /\ createRoom(s, m)
        /\ UNCHANGED <<evaluator, replenisher>>
EndStartGame ==
    \E first \in {0, 1}, a, b \in EndSources : startGame(first, <<a, b>>)
        /\ UNCHANGED <<evaluator, replenisher>>
EndSelectCard ==
    \E s \in Sockets, r \in RoomIds :
        /\ OnTurn(s, r) /\ EndTurnLeft(r) /\ Unselected(r)
        /\ selectCard(s, r, FirstCard(r))
        /\ UNCHANGED <<evaluator, replenisher>>
EndPlayHand ==
    \E s \in Sockets, r \in RoomIds, rnd \in ClassicPileSources :
        /\ OnTurn(s, r) /\ EndTurnLeft(r) /\ ~Unselected(r)
        /\ playHand(s, r, rnd)
        /\ UNCHANGED <<evaluator, replenisher>>
EndAcceptRematch ==
    \E s \in Sockets, r \in RoomIds, first \in {0, 1}, a, b \in EndSources :
        /\ Seated(s, r) /\ rooms[r].gameState = "ended"
        /\ acceptRematch(s, r, first, <<a, b>>)
        /\ UNCHANGED <<evaluator, replenisher>>

EndNext ==
    \/ SetPlayerName
    \/ EndCreateRoom
    \/ LongJoinRoom
    \/ EndStartGame
    \/ EndSelectCard
    \/ EndPlayHand
    \/ EndAcceptRematch

\* the player on turn has a selection to play
PlayPending ==
    \E s \in Sockets, r \in RoomIds : OnTurn(s, r) /\ EndTurnLeft(r) /\ ~Unselected(r)

\* the player on turn always eventually selects and plays: weak fairness of
\* the two steps, that of EndPlayHand with its enabling condition written out
EndSpec ==
    /\ Init /\ [][EndNext]_vars
    /\ WF_vars(EndSelectCard)
    /\ ([]<>(~PlayPending) \/ []<><<EndPlayHand>>_vars)

\* the step is a successful play in the room
PlaysIn(roomId) ==
    \E k \in DOMAIN emitted' :
        /\ emitted'[k].name \in {"handPlayed", "gameEnded"}
        /\ emitted'[k].id = roomId

\* the health the two players of the room have lost
HealthLost(roomId) ==
    LET a == PlayerAt(roomId, 0)
        b == PlayerAt(roomId, 1)
    IN (a.maxHealth - a.health) + (b.maxHealth - b.health)

\* the least damage of a play: a lone 2 (base 1 + face 2)
LeastDamage == evaluateHand(<<NewCard(2)>>).damage

\* C37: in Classic and Recycling every successful playHand deals at least 3
\* damage and strictly lowers the opponent's health, the turn counter is
\* bounded by the health lost, and under fairness of the player on turn a
\* playing match reaches ended
MatchTerminates ==
    /\ [][\A roomId \in DOMAIN rooms :
              (rooms[roomId].gameMode \in EndModes /\ PlaysIn(roomId)) =>
                  LET opponent == rooms[roomId].players[(1 - rooms[roomId].currentPlayer) + 1]
                  IN /\ rooms'[roomId].lastPlayedHand.damage >= LeastDamage
                     /\ objs'[opponent].health < objs[opponent].health]_vars
    /\ [](\A roomId \in DOMAIN rooms :
              (rooms[roomId].gameMode \in EndModes
               /\ rooms[roomId].gameState \in {"playing", "ended"}) =>
                  /\ LeastDamage * (rooms[roomId].turn - 1) <= HealthLost(roomId)
                  /\ rooms[roomId].turn <= MaxEndTurn)
    /\ \A r \in RoomIds :
           (r \in DOMAIN rooms /\ rooms[r].gameState = "playing")
               ~> (r \in DOMAIN rooms /\ rooms[r].gameState = "ended")

\* a Classic or Recycling match of more than two turns has just been ended
\* by a play
PlayedToTheEnd ==
    \E roomId \in DOMAIN rooms :
        /\ rooms[roomId].gameMode \in EndModes
        /\ rooms[roomId].gameState = "ended"
        /\ rooms[roomId].turn > 2
        /\ \E k \in DOMAIN emitted : emitted[k].name = "gameEnded"
        /\ \E i \in {0, 1} : PlayerAt(roomId, i).health = 0

---------------------------------------------------------------------------
(* A Tactical match whose decks are run down by armor building: the two
   clients select the first card of the hand and build armor with it until
   turn FreeTurn, and from then on discard it, play it or build armor *)

FreeTurn == 13
MaxDepleteTurn == 17

DepleteTurnLeft(roomId) == rooms[roomId].turn <= MaxDepleteTurn

DepleteCreateRoom ==
    \E s \in Creators :
        nextRoomId <= MaxRooms /\ InLobby(s) /\ createRoom(s, TACTICAL)
        /\ UNCHANGED <<evaluator, replenisher>>
DepleteSelectCard ==
    \E s \in Sockets, r \in RoomIds :
        /\ OnTurn(s, r) /\ DepleteTurnLeft(r) /\ Unselected(r)
        /\ objs[rooms[r].players[rooms[r].currentPlayer + 1]].hand # <<>>
        /\ selectCard(s, r, FirstCard(r))
        /\ UNCHANGED <<evaluator, replenisher>>
DepleteDiscardCards ==
    \E s \in Sockets, r \in RoomIds, rnd \in PileSources :
        /\ OnTurn(s, r) /\ DepleteTurnLeft(r) /\ ~Unselected(r)
        /\ rooms[r].turn >= FreeTurn
        /\ discardCards(s, r, rnd)
        /\ UNCHANGED <<evaluator, replenisher>>
DepletePlayHand ==
    \E s \in Sockets, r \in RoomIds, rnd \in PileSources :
        /\ OnTurn(s, r) /\ DepleteTurnLeft(r) /\ ~Unselected(r)
        /\ rooms[r].turn >= FreeTurn
        /\ playHand(s, r, rnd)
        /\ UNCHANGED <<evaluator, replenisher>>
DepleteBuildArmor ==
    \E s \in Sockets, r \in RoomIds, rnd \in PileSources :
        /\ OnTurn(s, r) /\ DepleteTurnLeft(r) /\ ~Unselected(r)
        /\ buildArmor(s, r, rnd)
        /\ UNCHANGED <<evaluator, replenisher>>

DepleteNext ==
    \/ SetPlayerName
    \/ DepleteCreateRoom
    \/ LongJoinRoom
    \/ StartGame
    \/ DepleteSelectCard
    \/ DepleteDiscardCards
    \/ DepletePlayHand
    \/ DepleteBuildArmor

DepleteSpec == Init /\ [][DepleteNext]_vars

\* C38: while a room is playing with two players, the hand of the player on
\* turn is never empty
NoStuckMatch ==
    \A roomId \in DOMAIN rooms :
        (rooms[roomId].gameState = "playing" /\ Len(rooms[roomId].players) = 2) =>
            PlayerAt(roomId, rooms[roomId].currentPlayer).hand # <<>>

\* the player on turn is down to its last card, with nothing left in its deck
\* or on its pile, and its discard has just been refused
LastCardKept ==
    \E roomId \in DOMAIN rooms :
        /\ rooms[roomId].gameState = "playing"
        /\ Len(rooms[roomId].players) = 2
        /\ LET player == PlayerAt(roomId, rooms[roomId].currentPlayer)
           IN /\ Len(player.hand) = 1
              /\ player.deck = <<>>
              /\ player.discardPile = <<>>
              /\ Len(player.selectedCards) = 1
        /\ emitted = <<Event("error", "sender",
                             PlayerAt(roomId, rooms[roomId].currentPlayer).id,
                             "Not enough cards available to complete discard", 0)>>


---------------------------------------------------------------------------
(* A match whose players come and go: two clients that create, join and
   leave the room at any time, and the player on turn selects the first card
   of its hand *)

SeatJoinRoom ==
    \E s \in Sockets, r \in RoomIds :
        InLobby(s) /\ Len(timers) < MaxPending /\ joinRoom(s, r)
        /\ UNCHANGED <<evaluator, replenisher>>
SeatSelectCard ==
    \E s \in Sockets, r \in RoomIds :
        /\ OnTurn(s, r) /\ Unselected(r)
        /\ objs[rooms[r].players[rooms[r].currentPlayer + 1]].hand # <<>>
        /\ selectCard(s, r, FirstCard(r))
        /\ UNCHANGED <<evaluator, replenisher>>
SeatLeaveRoom ==
    \E s \in Sockets : InRoom(s) /\ leaveRoom(s)
        /\ UNCHANGED <<evaluator, replenisher>>

SeatNext ==
    \/ SetPlayerName
    \/ CreateRoom
    \/ SeatJoinRoom
    \/ StartGame
    \/ SeatSelectCard
    \/ SeatLeaveRoom

SeatSpec == Init /\ [][SeatNext]_vars

\* after is before with the selected flag of the card cardId flipped and
\* every other card as it was
OnlyToggled(before, after, cardId) ==
    /\ DOMAIN after = DOMAIN before
    /\ \A k \in DOMAIN before :
           after[k] = IF before[k].id = cardId
                      THEN [before[k] EXCEPT !.selected = ~before[k].selected]
                      ELSE before[k]

\* selectedCards holds each selected card of the hand once and nothing else
SelectionOfHand(player) ==
    /\ Range(player.selectedCards)
           = {player.hand[k].id : k \in {m \in DOMAIN player.hand : player.hand[m].selected}}
    /\ Cardinality(Range(player.selectedCards)) = Len(player.selectedCards)

\* the players of a started match who are not on turn have nothing selected
WaitingUnselected(roomId) ==
    rooms[roomId].gameState \in {"playing", "ended"} =>
        \A i \in DOMAIN rooms[roomId].players :
            i - 1 # rooms[roomId].currentPlayer =>
                objs[rooms[roomId].players[i]].selectedCards = <<>>

\* C39: selectCard toggles the selected flag of exactly the named card of the
\* actor's hand and changes nothing else; selectedCards is always exactly
\* the cards of the hand whose selected flag is true; the player who is not
\* at currentPlayerIndex has no selected cards
SelectionConsistency ==
    [][/\ \A s \in Sockets, roomId \in RoomIds, c \in CardIds :
              (/\ Active(s, roomId)
               /\ PlayerAt(roomId, rooms[roomId].currentPlayer).init
               /\ HasCard(PlayerAt(roomId, rooms[roomId].currentPlayer).hand, c)
               /\ selectCard(s, roomId, c)) =>
                  LET ref == rooms[roomId].players[rooms[roomId].currentPlayer + 1]
                  IN /\ OnlyToggled(objs[ref].hand, objs'[ref].hand, c)
                     /\ objs' = [objs EXCEPT
                                    ![ref].hand = objs'[ref].hand,
                                    ![ref].selectedCards = objs'[ref].selectedCards]
                     /\ UNCHANGED <<rooms, players, timers, nextRoomId,
                                    disconnected, crashed>>
       /\ \A ref \in DOMAIN objs' : objs'[ref].init => SelectionOfHand(objs'[ref])
       /\ \A roomId \in DOMAIN rooms' : WaitingUnselected(roomId)']_vars

\* in a playing room of two, the player who is not on turn has a card selected
WaitingWithSelection ==
    \E roomId \in DOMAIN rooms :
        /\ rooms[roomId].gameState = "playing"
        /\ Len(rooms[roomId].players) = 2
        /\ PlayerAt(roomId, rooms[roomId].currentPlayer).init
        /\ PlayerAt(roomId, 1 - rooms[roomId].currentPlayer).selectedCards # <<>>

\* the step changes the room: its record, its registration or one of the
\* player objects it lists
RoomChanged(roomId) ==
    \/ roomId \notin DOMAIN rooms'
    \/ rooms'[roomId] # rooms[roomId]
    \/ \E i \in DOMAIN rooms[roomId].players :
           LET ref == rooms[roomId].players[i]
           IN ref \notin DOMAIN objs' \/ objs'[ref] # objs[ref]

\* a request of the socket that names the room
RoomRequest(s, roomId) ==
    \/ \E c \in CardIds : selectCard(s, roomId, c) \/ markForDiscard(s, roomId, c)
    \/ \E rnd \in PileSources :
           \/ discardCards(s, roomId, rnd)
           \/ playHand(s, roomId, rnd)
           \/ buildArmor(s, roomId, rnd)
    \/ \E p \in Predictions : makePrediction(s, roomId, p)
    \/ requestRematch(s, roomId)
    \/ declineRematch(s, roomId)
    \/ \E first \in {0, 1}, a, b \in DeckSources : acceptRematch(s, roomId, first, <<a, b>>)

\* C40: a request of a registered connection that is not one of the room's
\* players never changes the state of the room it names (a step that changes
\* the room is no request of such a connection)
OwnPlayersOnly ==
    [][\A s \in Sockets, roomId \in RoomIds :
          (/\ roomId \in DOMAIN rooms
           /\ s \in DOMAIN players
           /\ ~Seated(s, roomId)
           /\ RoomChanged(roomId)) => ~RoomRequest(s, roomId)]_vars

\* a match has just been dealt by acceptRematch in a room of one player while
\* another registered connection is in no room
DealtFromOutside ==
    \E roomId \in DOMAIN rooms, s \in DOMAIN players :
        /\ ~Seated(s, roomId)
        /\ objs[players[s]].roomId = NoRoom
        /\ Len(rooms[roomId].players) = 1
        /\ rooms[roomId].gameState = "playing"
        /\ \E k \in DOMAIN emitted : emitted[k].name = "rematchAccepted"

====
